---------------------------- MODULE Spec2Model ----------------------------
(***************************************************************************)
(* State-machine model of the Firmata host driver (Board, firmata.js) and  *)
(* of its transport (Communicator / BleComm).                              *)
(*                                                                         *)
(* The model follows the JavaScript source: one action per event handler,  *)
(* timer callback, API call or promise continuation.  Everything a handler *)
(* does synchronously (decode, event emission, listeners, lock.acquire and *)
(* the transport.write it may start) is part of the action.                *)
(***************************************************************************)
EXTENDS Integers, Sequences, FiniteSets, TLC

(***************************************************************************)
(* Protocol constants (firmata.js, lines 10-50).                           *)
(***************************************************************************)
ANALOG_MAPPING_QUERY    == 105   \* 0x69
ANALOG_MAPPING_RESPONSE == 106   \* 0x6A
ANALOG_MESSAGE          == 224   \* 0xE0
CAPABILITY_QUERY        == 107   \* 0x6B
CAPABILITY_RESPONSE     == 108   \* 0x6C
DIGITAL_MESSAGE         == 144   \* 0x90
END_SYSEX               == 247   \* 0xF7
I2C_CONFIG              == 120   \* 0x78
I2C_REPLY               == 119   \* 0x77
I2C_REQUEST             == 118   \* 0x76
PIN_MODE                == 244   \* 0xF4
PIN_STATE_RESPONSE      == 110   \* 0x6E
PING_READ               == 117   \* 0x75
QUERY_FIRMWARE          == 121   \* 0x79
REPORT_ANALOG           == 192   \* 0xC0
REPORT_VERSION          == 249   \* 0xF9
SAMPLING_INTERVAL       == 122   \* 0x7A
SERVO_CONFIG            == 112   \* 0x70
START_SYSEX             == 240   \* 0xF0
STEPPER                 == 114   \* 0x72
STRING_DATA             == 113   \* 0x71
SYSTEM_RESET            == 255
MICRODUINO_OLED         == 1
MICRODUINO_IR           == 7
MICRODUINO_MOTION       == 10
MICRODUINO_IBB          == 12
KEY_PRESSED             == 0
KEY_RELEASED            == 1

\* board.MODES (lines 514-529)
MODE_INPUT   == 0
MODE_OUTPUT  == 1
MODE_ANALOG  == 2
MODE_PWM     == 3
MODE_SERVO   == 4
MODE_PULLUP  == 11
MODES == {0, 1, 2, 3, 4, 5, 6, 7, 8, 10, 11, 127, 117, 16}

\* new AsyncLock({ timeout: 2000, maxPending: 10 })
maxPending == 10

\* JavaScript undefined / null for a numeric slot
Undefined == -1

(***************************************************************************)
(* Bounds of the model.                                                    *)
(***************************************************************************)
MaxChunk  == 2      \* bytes per inbound 'data' chunk
MaxBuf    == 4      \* candidate buffer length the exploration is cut at
MaxOps    == 4      \* operations (promise chains) per behaviour
MaxCalls  == 3      \* write-style API calls per behaviour
MaxOpens  == 2      \* transport 'open' events per behaviour
MaxWire   == 4      \* sequences handed to transport.write per behaviour
MaxInput  == 4      \* length of the byte sequence fed in the chunking check
MaxVersion == 127   \* largest major / minor byte of a version report
MaxCap    == 4      \* payload bytes of a capability reply
MaxMap    == 3      \* payload bytes of an analog-mapping reply
MaxPins   == 10     \* pins of the board in the digital-message check
MaxSubmit == 13     \* writes submitted in the full-queue check
MaxValue  == 16383  \* largest value encoded and decoded
MaxLog    == 6      \* writes per behaviour in the repeated-handshake check

(***************************************************************************)
(* 32-bit integer helpers, as JavaScript evaluates them.                   *)
(***************************************************************************)
ToInt(x) == IF x = Undefined THEN 0 ELSE x

RECURSIVE BitOr(_, _)
BitOr(a, b) ==
    IF a = 0 THEN b
    ELSE IF b = 0 THEN a
    ELSE (IF (a % 2 = 1) \/ (b % 2 = 1) THEN 1 ELSE 0) + 2 * BitOr(a \div 2, b \div 2)

RECURSIVE BitAnd(_, _)
BitAnd(a, b) ==
    IF a = 0 \/ b = 0 THEN 0
    ELSE (IF (a % 2 = 1) /\ (b % 2 = 1) THEN 1 ELSE 0) + 2 * BitAnd(a \div 2, b \div 2)

\* x & ~bit, for a single-bit mask
BitClear(x, bit) == IF BitAnd(x, bit) = 0 THEN x ELSE x - bit

\* 1 << k : the shift count is taken modulo 32, the result is a signed int32
Shl1(k) == LET s == k % 32 IN IF s = 31 THEN (-2147483647) - 1 ELSE 2 ^ s

\* Board.encode with the two bytes of a value in the other order
RECURSIVE encodeMsbFirst(_)
encodeMsbFirst(data) ==
    IF data = <<>> THEN <<>>
    ELSE <<BitAnd(Head(data) \div 128, 127), BitAnd(Head(data), 127)>>
           \o encodeMsbFirst(Tail(data))

\* Board.encode, lines 2394-2406: data[i] & 0x7F, (data[i] >> 7) & 0x7F
RECURSIVE encode(_)
encode(data) ==
    IF data = <<>> THEN <<>>
    ELSE <<BitAnd(Head(data), 127), BitAnd(Head(data) \div 128, 127)>>
           \o encode(Tail(data))

\* Board.decode, lines 2408-2422, for an even number of bytes:
\* lsb | (msb << 7)
RECURSIVE decode(_)
decode(data) ==
    IF Len(data) < 2 THEN <<>>
    ELSE <<BitOr(data[1], data[2] * 128)>> \o decode(Tail(Tail(data)))

\* F applied to the value of e, e being evaluated once
Then(e, F(_)) == CHOOSE r \in {F(x) : x \in {e}} : TRUE

\* JS index into a buffer (0-based); out of range reads are undefined
At(buf, i) == IF i >= 0 /\ i < Len(buf) THEN buf[i + 1] ELSE Undefined

(***************************************************************************)
(* State.                                                                  *)
(***************************************************************************)
VARIABLES
    board,      \* the Board instance: currentBuffer, versionReceived, isReady,
                \* version, firmware, pins, ports, analogPins, RESOLUTION,
                \* isClean, reportVersionTimeoutId
    mod,        \* module-level state: I2CActived, i2cInputData, the user's
                \* SysEx handlers, and the transport singletons (comm)
    once,       \* one-shot listeners registered with board.once, in order
    lock,       \* board.lock, key 'comm': busy flag and queue of waiting tasks
    inflight,   \* the calls of transport.write that have not settled yet
    wire,       \* every sequence handed to transport.write, in order, with
                \* the number of the writeToTransport call it comes from
    timers,     \* pending handshake timers set by the 'open' handler
    ops,        \* API calls and their promise continuations
    initThen,   \* continuations of init() ready to run (isClean = true)
    emitted,    \* events raised by the last action
    calls,      \* decode handlers invoked (by the last action; cumulative
                \* in the chunking check)
    hist,       \* observation: what has been decoded since the last
                \* disconnect (sinceOpen: a version report since the last open)
    readyAt,    \* observation: hist at each call of ready() in the last action
    rest,       \* chunking check: input bytes not fed yet; byte-wise parser
                \* check: the byte fed by the last step
    ref         \* chunking check: outcome of feeding the input as one chunk

vars == <<board, mod, once, lock, inflight, wire, timers, ops, initThen,
          emitted, calls, hist, readyAt, rest, ref>>

\* the part of the state a synchronous handler may touch, as one record
World ==
    [board |-> board, mod |-> mod, once |-> once, lock |-> lock,
     inflight |-> inflight, wire |-> wire, timers |-> timers, ops |-> ops,
     initThen |-> initThen,
     emitted |-> <<>>, calls |-> <<>>, hist |-> hist, readyAt |-> <<>>,
     thrown |-> FALSE]

Commit(w) ==
    /\ board' = w.board
    /\ mod' = w.mod
    /\ once' = w.once
    /\ lock' = w.lock
    /\ inflight' = w.inflight
    /\ wire' = w.wire
    /\ timers' = w.timers
    /\ ops' = w.ops
    /\ initThen' = w.initThen
    /\ emitted' = w.emitted
    /\ calls' = w.calls
    /\ hist' = w.hist
    /\ readyAt' = w.readyAt

\* function Board (port): lines 495-612
NewBoard ==
    [currentBuffer |-> <<>>, versionReceived |-> FALSE, isReady |-> FALSE,
     version |-> [major |-> Undefined, minor |-> Undefined],
     firmware |-> [name |-> <<>>, major |-> Undefined, minor |-> Undefined],
     pins |-> <<>>,
     ports |-> [p \in 0..15 |-> 0], analogPins |-> <<>>,
     RESOLUTION |-> [ADC |-> Undefined, PWM |-> Undefined],
     isClean |-> "undefined", reportVersionTimeoutId |-> Undefined]

\* the singletons of communicator.js and iosBleComm.js after the modules are
\* loaded: currentDevice and communicator of the Communicator, msgReceiver
\* (receiver) and connected of BleComm; connecting counts the bleConnect calls
\* the bridge has not answered; bridge lists the writes handed to the bridge
\* with the value of connected at that moment (observation)
NewComm ==
    [currentDevice |-> "null", communicator |-> FALSE, receiver |-> FALSE,
     connected |-> FALSE, connecting |-> 0, bridge |-> <<>>]

NewMod ==
    [I2CActived |-> FALSE, i2cInputData |-> {}, sysex |-> {}, comm |-> NewComm]

\* calls counts the calls of writeToTransport (observation)
NewLock == [busy |-> FALSE, queue |-> <<>>, calls |-> 0]

NewHist == [open |-> FALSE, version |-> FALSE, firmware |-> FALSE,
            capability |-> FALSE, mapping |-> FALSE, sinceOpen |-> FALSE,
            opens |-> 0]

Ev(name, arg, val) == [name |-> name, arg |-> arg, val |-> val]

(***************************************************************************)
(* Write serializer: writeToTransport and the AsyncLock it goes through.   *)
(***************************************************************************)
\* owner of a write whose promise carries the continuation of init()
InitOwner == -1

\* an operation's promise is rejected with the error of a write; failedAt
\* keeps the step the operation was at (observation)
FailOp(w, o) ==
    IF o <= 0 THEN w
    ELSE [w EXCEPT !.ops[o].pc = "failed", !.ops[o].failedAt = w.ops[o].pc]

\* writeToTransport without the lock: transport.write is called at once
writeToTransportUnlocked(w, data, owner) ==
    LET n == w.lock.calls + 1
    IN  [w EXCEPT !.board.isClean = IF @ = "true" THEN "false" ELSE @,
                  !.lock.calls = n,
                  !.inflight = Append(@, [data |-> data, owner |-> owner]),
                  !.wire = Append(@, [data |-> data, n |-> n])]

\* writeToTransport that leaves the isClean flag alone
writeToTransportKeepsClean(w, data, owner) ==
    LET n  == w.lock.calls + 1
        w1 == [w EXCEPT !.lock.calls = n]
    IN  IF ~w1.lock.busy
        THEN [w1 EXCEPT !.lock.busy = TRUE,
                        !.inflight = Append(@, [data |-> data, owner |-> owner]),
                        !.wire = Append(@, [data |-> data, n |-> n])]
        ELSE IF Len(w1.lock.queue) >= maxPending
        THEN FailOp(w1, owner)
        ELSE [w1 EXCEPT !.lock.queue =
                 Append(@, [data |-> data, owner |-> owner, n |-> n,
                            dead |-> FALSE])]

\* writeToTransport on a lock whose queue takes any number of tasks
writeToTransportUnbounded(w, data, owner) ==
    LET n  == w.lock.calls + 1
        w1 == [w EXCEPT !.board.isClean = IF @ = "true" THEN "false" ELSE @,
                        !.lock.calls = n]
    IN  IF ~w1.lock.busy
        THEN [w1 EXCEPT !.lock.busy = TRUE,
                        !.inflight = Append(@, [data |-> data, owner |-> owner]),
                        !.wire = Append(@, [data |-> data, n |-> n])]
        ELSE [w1 EXCEPT !.lock.queue =
                 Append(@, [data |-> data, owner |-> owner, n |-> n,
                            dead |-> FALSE])]

\* writeToTransport(board, data), lines 815-824; owner is the operation whose
\* continuation hangs on the returned promise (0: the promise is dropped).
\* lock.acquire runs the task at once when the key is free: transport.write
\* is called synchronously.
writeToTransport(w, data, owner) ==
    LET n  == w.lock.calls + 1
        w1 == [w EXCEPT !.board.isClean = IF @ = "true" THEN "false" ELSE @,
                        !.lock.calls = n]
    IN  IF ~w1.lock.busy
        THEN [w1 EXCEPT !.lock.busy = TRUE,
                        !.inflight = Append(@, [data |-> data, owner |-> owner]),
                        !.wire = Append(@, [data |-> data, n |-> n])]
        ELSE IF Len(w1.lock.queue) >= maxPending
        THEN FailOp(w1, owner)
        ELSE [w1 EXCEPT !.lock.queue =
                 Append(@, [data |-> data, owner |-> owner, n |-> n,
                            dead |-> FALSE])]

\* the promise of a write settles: the continuation of its owner is scheduled
WaitOk(pc) ==
    CASE pc = "mode_wait"   -> "mode_set"
      [] pc = "value_wait"  -> "value_set"
      [] pc = "report_wait" -> "report_set"
      [] pc = "i2c_wait"    -> "i2c_set"
      [] pc = "servo_wait"  -> "done"
      [] pc = "reset_wait"  -> "done"
      [] OTHER              -> pc

\* OnWrite with the continuation run also after a failed write
OnWriteLenient(w, o, ok) ==
    IF o = 0 THEN w
    ELSE IF o = InitOwner THEN (IF ok THEN [w EXCEPT !.initThen = @ + 1] ELSE w)
    ELSE [w EXCEPT !.ops[o].pc = WaitOk(@),
                   !.ops[o].failedAt = IF ok THEN @ ELSE w.ops[o].pc]

OnWrite(w, o, ok) ==
    IF o = 0 THEN w
    ELSE IF o = InitOwner THEN (IF ok THEN [w EXCEPT !.initThen = @ + 1] ELSE w)
    ELSE IF ok THEN [w EXCEPT !.ops[o].pc = WaitOk(@)]
    ELSE FailOp(w, o)

\* AsyncLock done(locked = true): run the next queued task; a task that has
\* timed out stays in the queue and is skipped when its turn comes.
RECURSIVE RunNext(_)
RunNext(w) ==
    IF Len(w.lock.queue) = 0
    THEN [w EXCEPT !.lock.busy = FALSE]
    ELSE LET t == Head(w.lock.queue)
             w1 == [w EXCEPT !.lock.queue = Tail(@)]
         IN  IF t.dead THEN RunNext(w1)
             ELSE [w1 EXCEPT
                     !.inflight = Append(@, [data |-> t.data, owner |-> t.owner]),
                     !.wire = Append(@, [data |-> t.data, n |-> t.n])]

\* the promise returned by the i-th pending transport.write settles (line
\* 822): AsyncLock settles the promise of acquire, then starts the next task
SettleWrite(w, i, ok) ==
    LET t  == w.inflight[i]
        w1 == [w EXCEPT !.inflight =
                  SubSeq(@, 1, i - 1) \o SubSeq(@, i + 1, Len(@))]
    IN  RunNext(OnWrite(w1, t.owner, ok))

(***************************************************************************)
(* Operations (promises) and one-shot listeners.                           *)
(***************************************************************************)
NewOp(kind, pin, value, mode, pc) ==
    [kind |-> kind, pin |-> pin, value |-> value, mode |-> mode, pc |-> pc,
     setmode |-> FALSE, data |-> <<>>, timer |-> FALSE, result |-> Undefined,
     settled |-> 0, modeN |-> 0, valueN |-> 0, failedAt |-> ""]

\* SettleOp for a promise that could be settled again
SettleOpAgain(w, o, outcome, val) ==
    [w EXCEPT !.ops[o].pc = outcome, !.ops[o].result = val,
              !.ops[o].settled = @ + 1]

\* resolve / reject of the promise of a read-style operation: a promise
\* settles once, later calls of resolve or reject are ignored
SettleOp(w, o, outcome, val) ==
    IF w.ops[o].pc = "pending"
    THEN [w EXCEPT !.ops[o].pc = outcome, !.ops[o].result = val,
                   !.ops[o].settled = @ + 1]
    ELSE w

\* board.once(event, callback)
Once(w, name, arg, cbkind, o) ==
    [w EXCEPT !.once = Append(@, [name |-> name, arg |-> arg, cb |-> cbkind, op |-> o])]

\* an event nobody inside the board listens to
EmitPlain(w, name, arg, val) ==
    [w EXCEPT !.emitted = Append(@, Ev(name, arg, val))]

\* Board.prototype.init, lines 1851-1895
init(w) ==
    LET w1 == [w EXCEPT
                 !.board.ports = [p \in 0..15 |-> 0],
                 !.board.pins = [i \in 1..Len(@) |-> [@[i] EXCEPT !.mode = Undefined]],
                 !.mod = [@ EXCEPT !.I2CActived = FALSE, !.i2cInputData = {}]]
    IN  writeToTransport(w1, <<START_SYSEX, SAMPLING_INTERVAL, 100, 0, END_SYSEX>>,
                         InitOwner)

\* .then(_ => { this.isClean = true }), lines 1892-1894
initDone(w) == [w EXCEPT !.board.isClean = "true", !.initThen = @ - 1]

\* function ready (), lines 757-761
ready(w) ==
    LET w1 == [w EXCEPT !.board.isReady = TRUE, !.readyAt = Append(@, w.hist)]
    IN  EmitPlain(init(w1), "ready", 0, 0)

\* Board.prototype.queryAnalogMapping, lines 1912-1915
queryAnalogMapping(w, cbkind) ==
    writeToTransport(Once(w, "analog-mapping-query", 0, cbkind, 0),
                     <<START_SYSEX, ANALOG_MAPPING_QUERY, END_SYSEX>>, 0)

\* Board.prototype.queryCapabilities, lines 1902-1905
queryCapabilities(w, cbkind) ==
    writeToTransport(Once(w, "capability-query", 0, cbkind, 0),
                     <<START_SYSEX, CAPABILITY_QUERY, END_SYSEX>>, 0)

\* this.on('reportversion', ...), lines 764-772
OnReportVersion(w) ==
    LET w1 == [w EXCEPT
                 !.timers = {t \in @ : t.id # w.board.reportVersionTimeoutId},
                 !.board.versionReceived = TRUE]
    IN  IF w1.board.isReady THEN init(w1) ELSE w1

\* this.on('queryfirmware', ...), lines 774-787
OnQueryFirmware(w) ==
    IF w.board.isReady THEN w
    ELSE queryCapabilities(w, "queryAnalogMapping")

\* the callback of a one-shot listener
RunCallback(w, l, val) ==
    CASE l.cb = "queryAnalogMapping" -> queryAnalogMapping(w, "ready")
      [] l.cb = "ready"              -> ready(w)
      [] l.cb = "resolve"            -> SettleOp(w, l.op, "resolved", val)
      [] OTHER                       -> w

RECURSIVE RunCallbacks(_, _, _)
RunCallbacks(w, ls, val) ==
    IF ls = <<>> THEN w
    ELSE Then(RunCallback(w, Head(ls), val),
              LAMBDA x : RunCallbacks(x, Tail(ls), val))

\* board.emit(name, val): the permanent listeners of the constructor first,
\* then the one-shot listeners of the event, each removed as it runs
Emit(w, name, arg, val) ==
    LET Match(l) == l.name = name /\ l.arg = arg
        Other(l) == ~Match(l)
        hit == SelectSeq(w.once, Match)
        w1  == [w EXCEPT !.emitted = Append(@, Ev(name, arg, val)),
                         !.once = SelectSeq(@, Other)]
        w2  == CASE name = "reportversion" -> OnReportVersion(w1)
                 [] name = "queryfirmware" -> OnQueryFirmware(w1)
                 [] OTHER                  -> w1
    IN  RunCallbacks(w2, hit, val)

(***************************************************************************)
(* Message registry: MIDI_RESPONSE (lines 59-144).                         *)
(***************************************************************************)
\* MidiReportVersion with the two data bytes taken in the other order
MidiReportVersionSwapped(w) ==
    LET buf == w.board.currentBuffer
    IN  Emit([w EXCEPT !.board.version = [major |-> At(buf, 2), minor |-> At(buf, 1)]],
             "reportversion", 0, 0)

\* MIDI_RESPONSE[REPORT_VERSION], lines 67-72
MidiReportVersion(w) ==
    LET buf == w.board.currentBuffer
    IN  Emit([w EXCEPT !.board.version = [major |-> At(buf, 1), minor |-> At(buf, 2)]],
             "reportversion", 0, 0)

\* MIDI_RESPONSE[ANALOG_MESSAGE], lines 80-94
MidiAnalogMessage(w) ==
    LET buf   == w.board.currentBuffer
        pin   == BitAnd(At(buf, 0), 15)
        value == BitOr(At(buf, 1), At(buf, 2) * 128)
        ap    == At(w.board.analogPins, pin)
        w1    == IF ap # Undefined /\ ap < Len(w.board.pins)
                 THEN [w EXCEPT !.board.pins[ap + 1].value = value]
                 ELSE w
    IN  EmitPlain(Emit(w1, "analog-read", pin, value), "analog-read-any", pin, value)

\* DigitalPin without the test of the pin's mode
DigitalPinAnyMode(w, port, portValue, i) ==
    LET pinNumber == 8 * port + i
        bit       == 2 ^ i
    IN  IF pinNumber < Len(w.board.pins)
        THEN LET pin == w.board.pins[pinNumber + 1]
                 currentValue == (portValue \div bit) % 2
                 event == IF pin.value = 1 /\ currentValue = 0 THEN KEY_PRESSED
                          ELSE IF pin.value = 0 /\ currentValue = 1 THEN KEY_RELEASED
                          ELSE pin.event
                 w1 == [w EXCEPT
                          !.board.pins[pinNumber + 1].event = event,
                          !.board.pins[pinNumber + 1].value = currentValue,
                          !.board.ports[port] =
                              IF currentValue = 1 THEN BitOr(@, bit) ELSE BitClear(@, bit)]
             IN  EmitPlain(Emit(w1, "digital-read", pinNumber, currentValue),
                           "digital-read-any", pinNumber, currentValue)
        ELSE w

\* one iteration of the loop of MIDI_RESPONSE[DIGITAL_MESSAGE], lines 116-143
DigitalPin(w, port, portValue, i) ==
    LET pinNumber == 8 * port + i
        bit       == 2 ^ i
    IN  IF pinNumber < Len(w.board.pins)
           /\ w.board.pins[pinNumber + 1].mode \in {MODE_INPUT, MODE_PULLUP}
        THEN LET pin == w.board.pins[pinNumber + 1]
                 currentValue == (portValue \div bit) % 2
                 event == IF pin.value = 1 /\ currentValue = 0 THEN KEY_PRESSED
                          ELSE IF pin.value = 0 /\ currentValue = 1 THEN KEY_RELEASED
                          ELSE pin.event
                 w1 == [w EXCEPT
                          !.board.pins[pinNumber + 1].event = event,
                          !.board.pins[pinNumber + 1].value = currentValue,
                          !.board.ports[port] =
                              IF currentValue = 1 THEN BitOr(@, bit) ELSE BitClear(@, bit)]
             IN  EmitPlain(Emit(w1, "digital-read", pinNumber, currentValue),
                           "digital-read-any", pinNumber, currentValue)
        ELSE w

RECURSIVE DigitalLoop(_, _, _, _)
DigitalLoop(w, port, portValue, i) ==
    IF i = 8 THEN w
    ELSE Then(DigitalPin(w, port, portValue, i),
              LAMBDA x : DigitalLoop(x, port, portValue, i + 1))

\* MIDI_RESPONSE[DIGITAL_MESSAGE], lines 112-144
MidiDigitalMessage(w) ==
    LET buf == w.board.currentBuffer
    IN  DigitalLoop(w, BitAnd(At(buf, 0), 15), BitOr(At(buf, 1), At(buf, 2) * 128), 0)

(***************************************************************************)
(* Message registry: SYSEX_RESPONSE (lines 152-474).                       *)
(***************************************************************************)
\* the firmware name, decoded from 7-bit pairs (loop of lines 165-168)
FirmwareName(buf) ==
    LET length == Len(buf) - 2
        n == IF length > 4 THEN (length - 4 + 1) \div 2 ELSE 0
    IN  [k \in 1..n |->
            BitAnd(BitOr(BitAnd(ToInt(At(buf, 2 + 2 * k)), 127),
                         BitAnd(ToInt(At(buf, 3 + 2 * k)), 127) * 128), 255)]

\* SYSEX_RESPONSE[QUERY_FIRMWARE], lines 160-178.  new Uint8Array(n) throws a
\* RangeError when Math.round((length - 4) / 2) is negative, that is for
\* frames shorter than 5 bytes.
SysexQueryFirmware(w) ==
    LET buf == w.board.currentBuffer
    IN  IF Len(buf) < 5 THEN [w EXCEPT !.thrown = TRUE]
        ELSE Emit([w EXCEPT !.board.firmware =
                      [name |-> FirmwareName(buf), major |-> At(buf, 2), minor |-> At(buf, 3)]],
                  "queryfirmware", 0, 0)

\* function supportedModes (capability), lines 191-198; the capability word is
\* kept as the set of its bits, (1 << mode) sets bit (mode mod 32)
supportedModes(capability) == {m \in MODES : (m % 32) \in capability}

NewPin(capability) ==
    [supportedModes |-> supportedModes(capability), mode |-> Undefined, value |-> 0,
     report |-> 1, analogChannel |-> Undefined, event |-> Undefined, state |-> Undefined]

\* resolution = (1 << bits) - 1, line 217.  For a shift count of 31 (mod 32)
\* JavaScript yields -2147483649, which is below the range of the integers
\* of the model; it is represented by -2147483648, a value no other shift
\* count yields.
Resolution(bits) == IF bits % 32 = 31 THEN Shl1(bits) ELSE Shl1(bits) - 1

\* the loop of SYSEX_RESPONSE[CAPABILITY_RESPONSE], lines 204-236
RECURSIVE CapabilityLoop(_, _, _, _, _)
CapabilityLoop(b, buf, i, n, capability) ==
    IF i >= Len(buf) - 1 THEN b
    ELSE IF At(buf, i) = 127
    THEN CapabilityLoop([b EXCEPT !.pins = Append(@, NewPin(capability))], buf, i + 1, 0, {})
    ELSE IF n = 0
    THEN LET mode == At(buf, i)
             resolution == Resolution(ToInt(At(buf, i + 1)))
             b1 == IF mode = MODE_ANALOG /\ b.RESOLUTION.ADC = Undefined
                   THEN [b EXCEPT !.RESOLUTION.ADC = resolution] ELSE b
             b2 == IF mode = MODE_PWM /\ b1.RESOLUTION.PWM = Undefined
                   THEN [b1 EXCEPT !.RESOLUTION.PWM = resolution] ELSE b1
         IN  CapabilityLoop(b2, buf, i + 1, 1, capability \cup {mode % 32})
    ELSE CapabilityLoop(b, buf, i + 1, 0, capability)

\* SysexCapabilityResponse keeping the pins already created and appending
\* those of the new frame
SysexCapabilityResponseAppending(w) ==
    LET b0 == [w.board EXCEPT !.ports = [p \in 0..15 |-> 0]]
    IN  Emit([w EXCEPT !.board = CapabilityLoop(b0, w.board.currentBuffer, 2, 0, {})],
             "capability-query", 0, 0)

\* SYSEX_RESPONSE[CAPABILITY_RESPONSE], lines 186-240
SysexCapabilityResponse(w) ==
    LET b0 == [w.board EXCEPT !.ports = [p \in 0..15 |-> 0], !.pins = <<>>]
    IN  Emit([w EXCEPT !.board = CapabilityLoop(b0, w.board.currentBuffer, 2, 0, {})],
             "capability-query", 0, 0)

\* SYSEX_RESPONSE[PIN_STATE_RESPONSE], lines 252-263: board.pins[pin].mode = ...
\* throws a TypeError when board.pins[pin] is undefined
SysexPinStateResponse(w) ==
    LET buf == w.board.currentBuffer
        pin == At(buf, 2)
        s0  == At(buf, 4)
        s1  == IF Len(buf) > 6 THEN BitOr(ToInt(s0), ToInt(At(buf, 5)) * 128) ELSE s0
        s2  == IF Len(buf) > 7 THEN BitOr(ToInt(s1), ToInt(At(buf, 6)) * 16384) ELSE s1
    IN  IF pin >= Len(w.board.pins) THEN [w EXCEPT !.thrown = TRUE]
        ELSE Emit([w EXCEPT !.board.pins[pin + 1].mode = At(buf, 3),
                            !.board.pins[pin + 1].state = s2],
                  "pin-state", pin, 0)

\* the loop of SYSEX_RESPONSE[ANALOG_MAPPING_RESPONSE], lines 275-282:
\* board.pins[pin].analogChannel = ... throws when the frame has more entries
\* than there are pins, after the earlier entries have been applied
RECURSIVE AnalogMappingLoop(_, _, _)
AnalogMappingLoop(w, i, pin) ==
    LET buf == w.board.currentBuffer
    IN  IF i >= Len(buf) - 1 THEN w
        ELSE IF pin >= Len(w.board.pins) THEN [w EXCEPT !.thrown = TRUE]
        ELSE AnalogMappingLoop(
                 [w EXCEPT !.board.pins[pin + 1].analogChannel = At(buf, i),
                           !.board.analogPins =
                               IF At(buf, i) # 127 THEN Append(@, pin) ELSE @],
                 i + 1, pin + 1)

\* SYSEX_RESPONSE[ANALOG_MAPPING_RESPONSE], lines 271-284
SysexAnalogMappingResponse(w) ==
    LET w1 == AnalogMappingLoop([w EXCEPT !.board.analogPins = <<>>], 2, 0)
    IN  IF w1.thrown THEN w1 ELSE Emit(w1, "analog-mapping-query", 0, 0)

\* the 14-bit words of an I2C reply (loop of lines 426-429)
I2CWords(buf) ==
    LET n == IF Len(buf) - 1 > 6 THEN (Len(buf) - 1 - 6 + 1) \div 2 ELSE 0
    IN  [k \in 1..n |-> BitOr(ToInt(At(buf, 4 + 2 * k)), ToInt(At(buf, 5 + 2 * k)) * 128)]

I2CKey(address, register) == address * 16384 + register

\* SYSEX_RESPONSE[I2C_REPLY], lines 421-433
SysexI2CReply(w) ==
    LET buf      == w.board.currentBuffer
        address  == BitOr(BitAnd(ToInt(At(buf, 2)), 127), BitAnd(ToInt(At(buf, 3)), 127) * 128)
        register == BitOr(BitAnd(ToInt(At(buf, 4)), 127), BitAnd(ToInt(At(buf, 5)), 127) * 128)
        reply    == I2CWords(buf)
        key      == I2CKey(address, register)
    IN  Emit([w EXCEPT !.mod.i2cInputData =
                  {d \in @ : d.key # key} \cup {[key |-> key, reply |-> reply]}],
             "I2C-reply", key, reply)

\* the command bytes SYSEX_RESPONSE has a handler for
SysexCommands ==
    {QUERY_FIRMWARE, CAPABILITY_RESPONSE, PIN_STATE_RESPONSE, ANALOG_MAPPING_RESPONSE,
     MICRODUINO_IR, MICRODUINO_MOTION, MICRODUINO_OLED, MICRODUINO_IBB,
     I2C_REPLY, STRING_DATA, PING_READ, STEPPER}

SysexName(cmd) ==
    CASE cmd = QUERY_FIRMWARE          -> "QUERY_FIRMWARE"
      [] cmd = CAPABILITY_RESPONSE     -> "CAPABILITY_RESPONSE"
      [] cmd = PIN_STATE_RESPONSE      -> "PIN_STATE_RESPONSE"
      [] cmd = ANALOG_MAPPING_RESPONSE -> "ANALOG_MAPPING_RESPONSE"
      [] cmd = I2C_REPLY               -> "I2C_REPLY"
      [] cmd = STRING_DATA             -> "STRING_DATA"
      [] OTHER                         -> "SYSEX_OTHER"

\* SYSEX_RESPONSE[cmd](board); the peripheral handlers (IR, motion, OLED,
\* buggy, ping, stepper) only raise their event here
SysexHandler(w, cmd) ==
    CASE cmd = QUERY_FIRMWARE          -> SysexQueryFirmware(w)
      [] cmd = CAPABILITY_RESPONSE     -> SysexCapabilityResponse(w)
      [] cmd = PIN_STATE_RESPONSE      -> SysexPinStateResponse(w)
      [] cmd = ANALOG_MAPPING_RESPONSE -> SysexAnalogMappingResponse(w)
      [] cmd = I2C_REPLY               -> SysexI2CReply(w)
      [] cmd = STRING_DATA             -> EmitPlain(w, "string", 0, 0)
      [] OTHER                         -> EmitPlain(w, "peripheral", cmd, 0)

MidiName(response) ==
    CASE response = REPORT_VERSION  -> "REPORT_VERSION"
      [] response = ANALOG_MESSAGE  -> "ANALOG_MESSAGE"
      [] OTHER                      -> "DIGITAL_MESSAGE"

MidiHandler(w, response) ==
    CASE response = REPORT_VERSION  -> MidiReportVersion(w)
      [] response = ANALOG_MESSAGE  -> MidiAnalogMessage(w)
      [] OTHER                      -> MidiDigitalMessage(w)

(***************************************************************************)
(* Frame parser: the transport 'data' handler (lines 648-744).             *)
(***************************************************************************)
\* observation of a handler invocation: which handler, on which frame, and
\* the value versionReceived had when the dispatch was decided
Logged(w, h) ==
    [w EXCEPT
       !.calls = Append(@, [h |-> h, frame |-> w.board.currentBuffer,
                            vr |-> w.board.versionReceived, run |-> TRUE,
                            arg |-> <<>>]),
       !.hist = CASE h = "REPORT_VERSION"          -> [@ EXCEPT !.version = TRUE,
                                                               !.sinceOpen = TRUE]
                  [] h = "QUERY_FIRMWARE"          -> [@ EXCEPT !.firmware = TRUE]
                  [] h = "CAPABILITY_RESPONSE"     -> [@ EXCEPT !.capability = TRUE]
                  [] h = "ANALOG_MAPPING_RESPONSE" -> [@ EXCEPT !.mapping = w.hist.capability]
                  [] OTHER                         -> @]

\* observation of a complete frame whose handler is not invoked because
\* versionReceived is false
Skipped(w, h) ==
    [w EXCEPT
       !.calls = Append(@, [h |-> h, frame |-> w.board.currentBuffer,
                            vr |-> w.board.versionReceived, run |-> FALSE,
                            arg |-> <<>>])]

\* response = first < START_SYSEX ? (first & START_SYSEX) : first
Response(first) == IF first < START_SYSEX THEN BitAnd(first, START_SYSEX) ELSE first

\* Array.prototype.slice(begin, end) with a negative end counted from the
\* end of the array
Slice(buf, begin, end) ==
    LET n  == Len(buf)
        b  == IF begin > n THEN n ELSE begin
        e0 == IF end < 0 THEN n + end ELSE end
        e  == IF e0 < 0 THEN 0 ELSE IF e0 > n THEN n ELSE e0
    IN  IF b >= e THEN <<>> ELSE SubSeq(buf, b + 1, e)

\* the wrapper sysexResponse registers, lines 2307-2309:
\* handler.call(board, board.currentBuffer.slice(2, -1))
UserHandler(w) ==
    [w EXCEPT
       !.calls = Append(@, [h |-> "USER", frame |-> w.board.currentBuffer,
                            vr |-> w.board.versionReceived, run |-> TRUE,
                            arg |-> Slice(w.board.currentBuffer, 2, -1)])]

\* SysexDispatch without the test of versionReceived
SysexDispatchUngated(w, cmd) ==
    IF cmd \in SysexCommands
    THEN SysexHandler(Logged(w, SysexName(cmd)), cmd)
    ELSE w

\* lines 664-670: handler = SYSEX_RESPONSE[currentBuffer[1]];
\* if (handler && this.versionReceived) handler(this)
SysexDispatch(w, cmd) ==
    IF cmd \in SysexCommands
    THEN IF w.board.versionReceived
         THEN SysexHandler(Logged(w, SysexName(cmd)), cmd)
         ELSE Skipped(w, SysexName(cmd))
    ELSE IF cmd \in w.mod.sysex
    THEN IF w.board.versionReceived THEN UserHandler(w) ELSE Skipped(w, "USER")
    ELSE w

\* FrameStep without the restart: a byte above 0x7F arriving inside an
\* incomplete SysEx is kept in the buffer
FrameStepNoRestart(w, byte, first, last) ==
    IF first = START_SYSEX /\ last = END_SYSEX
    THEN LET w1 == SysexDispatch(w, At(w.board.currentBuffer, 1))
         IN  IF w1.thrown THEN [w1 EXCEPT !.hist = w.hist]
             ELSE [w1 EXCEPT !.board.currentBuffer = <<>>]
    ELSE IF first = START_SYSEX /\ Len(w.board.currentBuffer) > 0
    THEN w
    ELSE IF first # START_SYSEX
            /\ Response(first) \notin {REPORT_VERSION, ANALOG_MESSAGE, DIGITAL_MESSAGE}
    THEN [w EXCEPT !.board.currentBuffer = <<>>]
    ELSE w

\* lines 663-719: the SysEx branch, the restart after an incomplete SysEx and
\* the garbage check; first and last are the locals of the loop body
FrameStep(w, byte, first, last) ==
    IF first = START_SYSEX /\ last = END_SYSEX
    THEN LET w1 == SysexDispatch(w, At(w.board.currentBuffer, 1))
         IN  IF w1.thrown THEN [w1 EXCEPT !.hist = w.hist]
             ELSE [w1 EXCEPT !.board.currentBuffer = <<>>]
    ELSE IF first = START_SYSEX /\ Len(w.board.currentBuffer) > 0
    THEN IF byte > 127
         THEN [w EXCEPT !.board.currentBuffer = <<byte>>]
         ELSE w
    ELSE IF first # START_SYSEX
            /\ Response(first) \notin {REPORT_VERSION, ANALOG_MESSAGE, DIGITAL_MESSAGE}
    THEN [w EXCEPT !.board.currentBuffer = <<>>]
    ELSE w

\* ShortStep without the test of versionReceived
ShortStepUngated(w, first) ==
    IF Len(w.board.currentBuffer) = 3 /\ first # START_SYSEX
    THEN LET response == Response(first)
         IN  IF response \in {REPORT_VERSION, ANALOG_MESSAGE, DIGITAL_MESSAGE}
             THEN [MidiHandler([Logged(w, MidiName(response))
                                   EXCEPT !.board.versionReceived = TRUE],
                               response)
                     EXCEPT !.board.currentBuffer = <<>>]
             ELSE [w EXCEPT !.board.currentBuffer = <<>>]
    ELSE w

\* lines 723-742: dispatch of a 3-byte short message
ShortStep(w, first) ==
    IF Len(w.board.currentBuffer) = 3 /\ first # START_SYSEX
    THEN LET response == Response(first)
         IN  IF response \in {REPORT_VERSION, ANALOG_MESSAGE, DIGITAL_MESSAGE}
             THEN LET w1 == IF w.board.versionReceived \/ first = REPORT_VERSION
                            THEN MidiHandler(
                                     [Logged(w, MidiName(response))
                                         EXCEPT !.board.versionReceived = TRUE],
                                     response)
                            ELSE Skipped(w, MidiName(response))
                  IN  [w1 EXCEPT !.board.currentBuffer = <<>>]
             ELSE [w EXCEPT !.board.currentBuffer = <<>>]
    ELSE w

\* ProcessByte without the filter on the leading byte before the handshake
ProcessByteUnfiltered(w, byte) ==
    IF Len(w.board.currentBuffer) = 0 /\ byte = 0
    THEN w
    ELSE LET w1    == [w EXCEPT !.board.currentBuffer = Append(@, byte)]
             first == w1.board.currentBuffer[1]
             w2    == FrameStep(w1, byte, first, byte)
         IN  IF w2.thrown THEN w2 ELSE ShortStep(w2, first)

\* the body of the loop for one byte, lines 653-742
ProcessByte(w, byte) ==
    IF Len(w.board.currentBuffer) = 0
       /\ (byte = 0 \/ (~w.board.versionReceived /\ byte # REPORT_VERSION))
    THEN w
    ELSE LET w1    == [w EXCEPT !.board.currentBuffer = Append(@, byte)]
             first == w1.board.currentBuffer[1]
             w2    == FrameStep(w1, byte, first, byte)
         IN  IF w2.thrown THEN w2 ELSE ShortStep(w2, first)

\* this.transport.on('data', data => ...), lines 648-744: an exception thrown
\* by a handler leaves the loop, the rest of the chunk is not processed
RECURSIVE DataHandler(_, _)
DataHandler(w, data) ==
    IF data = <<>> \/ w.thrown THEN w
    ELSE Then(ProcessByte(w, Head(data)), LAMBDA x : DataHandler(x, Tail(data)))

(***************************************************************************)
(* Transport events (lines 614-646) and the handshake timers.              *)
(***************************************************************************)
\* setTimeout returns an id no pending timer has
FreshTimer(w) ==
    CHOOSE i \in 1..(Cardinality(w.timers) + 2) :
        /\ i # w.board.reportVersionTimeoutId
        /\ \A t \in w.timers : t.id # i

\* Board.prototype.reportVersion, lines 840-843
reportVersion(w) == writeToTransport(w, <<REPORT_VERSION>>, 0)

\* Board.prototype.queryFirmware, lines 850-853
queryFirmware(w) ==
    writeToTransport(Once(w, "queryfirmware", 0, "noop", 0),
                     <<START_SYSEX, QUERY_FIRMWARE, END_SYSEX>>, 0)

\* this.transport.on('open', ...), lines 625-642
OnOpen(w) ==
    LET id == FreshTimer(w)
    IN  EmitPlain([w EXCEPT !.timers = @ \cup {[id |-> id, stage |-> 1]},
                            !.board.reportVersionTimeoutId = id,
                            !.hist.open = TRUE,
                            !.hist.sinceOpen = FALSE,
                            !.hist.opens = @ + 1],
                  "open", 0, 0)

\* the callback of the first timer (100 ms), lines 628-639
OnTimer1(w, t) ==
    LET w1 == queryFirmware(reportVersion([w EXCEPT !.timers = @ \ {t}]))
        id == FreshTimer(w1)
    IN  [w1 EXCEPT !.timers = @ \cup {[id |-> id, stage |-> 2]},
                   !.board.reportVersionTimeoutId = id]

\* the callback of the second timer (reportVersionTimeout), lines 633-638
OnTimer2(w, t) ==
    EmitPlain(queryFirmware(reportVersion([w EXCEPT !.timers = @ \ {t}])),
              "timeout", 0, 0)

\* this.transport.on('disconnect', ...), lines 618-623
OnDisconnect(w) ==
    EmitPlain([w EXCEPT !.board.versionReceived = FALSE,
                        !.board.isReady = FALSE,
                        !.hist = [NewHist EXCEPT !.opens = w.hist.opens]],
              "disconnect", 0, 0)

\* bounds of the exploration: buffer length, writes and operations
InBounds(w) ==
    /\ Len(w.board.currentBuffer) <= MaxBuf
    /\ Len(w.wire) + Len(w.lock.queue) <= MaxWire
    /\ Len(w.ops) <= MaxOps

TransportOpen ==
    /\ hist.opens < MaxOpens
    /\ \E w \in {OnOpen(World)} : InBounds(w) /\ Commit(w)
    /\ UNCHANGED <<rest, ref>>

TransportDisconnect ==
    /\ hist.open
    /\ \E w \in {OnDisconnect(World)} : Commit(w)
    /\ UNCHANGED <<rest, ref>>

\* this.transport.on('close', ...), lines 614-616
TransportClose ==
    /\ hist.open
    /\ Commit(EmitPlain(World, "close", 0, 0))
    /\ UNCHANGED <<rest, ref>>

\* this.transport.on('error', ...), lines 644-646
TransportError ==
    /\ Commit(EmitPlain(World, "error", 0, 0))
    /\ UNCHANGED <<rest, ref>>

TimerFires ==
    \E t \in timers :
        \E w \in {IF t.stage = 1 THEN OnTimer1(World, t) ELSE OnTimer2(World, t)} :
            /\ InBounds(w)
            /\ Commit(w)
            /\ UNCHANGED <<rest, ref>>

\* an inbound chunk whose bytes are drawn from the set S
TransportData(S) ==
    \E n \in 1..MaxChunk : \E data \in [1..n -> S] :
        \E w \in {DataHandler(World, data)} :
            /\ InBounds(w)
            /\ Commit(w)
            /\ UNCHANGED <<rest, ref>>

\* an inbound chunk that is one of the sequences of F
TransportFrames(F) ==
    \E data \in F :
        \E w \in {DataHandler(World, data)} :
            /\ InBounds(w)
            /\ Commit(w)
            /\ UNCHANGED <<rest, ref>>

(***************************************************************************)
(* The transport's write promise settles; lock timeouts.                   *)
(***************************************************************************)
TransportSettles ==
    /\ \E i \in 1..Len(inflight), ok \in BOOLEAN :
          \E w \in {SettleWrite(World, i, ok)} : Commit(w)
    /\ UNCHANGED <<rest, ref>>

\* a queued task has waited for lock.timeout (2000 ms): its acquire fails,
\* the task stays in the queue and is skipped later
LockTimeout ==
    \E i \in 1..Len(lock.queue) :
        /\ ~lock.queue[i].dead
        /\ \E w \in {FailOp([World EXCEPT !.lock.queue[i].dead = TRUE],
                            lock.queue[i].owner)} : Commit(w)
        /\ UNCHANGED <<rest, ref>>

(***************************************************************************)
(* The transport: Communicator (communicator.js) over BleComm              *)
(* (iosBleComm.js).  The board listens to the Communicator's events.       *)
(***************************************************************************)
\* this.emit(name) of the Communicator, with the board's listener for it
CommEmit(w, name, data) ==
    CASE name = "open"       -> OnOpen(EmitPlain(w, "transport.open", 0, 0))
      [] name = "disconnect" -> OnDisconnect(EmitPlain(w, "transport.disconnect", 0, 0))
      [] OTHER               -> DataHandler(EmitPlain(w, "transport.data", 0, 0), data)

\* Communicator.connectInternal, communicator.js lines 77-86, with
\* BleComm.connect up to the call of the bridge (iosBleComm.js lines 37-41);
\* for another kind of device the promise is rejected and connect's catch
\* logs the error
connectInternal(w, device) ==
    LET w1 == [w EXCEPT !.mod.comm.currentDevice = device]
    IN  IF device = "ble_mobile"
        THEN [w1 EXCEPT !.mod.comm.communicator = TRUE,
                        !.mod.comm.receiver = TRUE,
                        !.mod.comm.connecting = @ + 1]
        ELSE w1

\* the bridge answers bleConnect (iosBleComm.js lines 42-50); on success the
\* then-callback of Communicator.connect emits 'open' (communicator.js lines
\* 67-73), on failure the catch logs the error
connectResponse(w, success) ==
    LET w1 == [w EXCEPT !.mod.comm.connecting = @ - 1]
    IN  IF success
        THEN CommEmit([w1 EXCEPT !.mod.comm.connected = TRUE], "open", <<>>)
        ELSE w1

\* Communicator.disconnect, communicator.js lines 50-63, with
\* BleComm.disconnect (iosBleComm.js lines 62-73)
disconnect(w) ==
    IF w.mod.comm.currentDevice = "null" THEN w
    ELSE IF w.mod.comm.currentDevice = "ble_mobile"
    THEN LET w1 == [w EXCEPT !.mod.comm.receiver = FALSE,
                             !.mod.comm.currentDevice = "null"]
             w2 == CommEmit(w1, "disconnect", <<>>)
         IN  [w2 EXCEPT !.mod.comm.connected = FALSE]
    ELSE w

\* Communicator.msgReceiver, communicator.js lines 19-27
msgReceiver(w, data, isError) ==
    IF isError THEN disconnect(w) ELSE CommEmit(w, "data", data)

\* BleComm.handleNotification, iosBleComm.js lines 55-60: the receiver is
\* called with the data alone, isError is undefined
handleNotification(w, data) ==
    IF w.mod.comm.receiver /\ w.mod.comm.connected
    THEN msgReceiver(w, data, FALSE)
    ELSE w

\* Communicator.write, communicator.js lines 29-42, with
\* BleComm.sendMsgPromise (iosBleComm.js lines 26-35): the bytes of the n-th
\* writeToTransport call are handed to the bridge when a communicator is
\* set; without one write returns undefined.  Either way the lock's task
\* ends without an error.
CommunicatorWrite(w, n) ==
    IF w.mod.comm.communicator
    THEN [w EXCEPT !.mod.comm.bridge =
             Append(@, [n |-> n, connected |-> w.mod.comm.connected])]
    ELSE w

\* board.transport.write is Communicator.write: the sequences a handler has
\* added to wire (from position i on) pass through it
RECURSIVE Transmit(_, _)
Transmit(w, i) ==
    IF i > Len(w.wire) THEN w
    ELSE Transmit(CommunicatorWrite(w, w.wire[i].n), i + 1)

(***************************************************************************)
(* Board API: pin operations (lines 860-1055, 1346-1373).                  *)
(***************************************************************************)
\* firmware.name.startsWith('sp') moves pins 14..21 up by 10 (lines 986-990)
StartsWithSp(w) ==
    LET name == w.board.firmware.name
    IN  Len(name) >= 2 /\ name[1] = 115 /\ name[2] = 112

\* the "report digital" bytes digitalRead sends, lines 1045-1049
ReportDigitalData(w) ==
    IF StartsWithSp(w) THEN <<208, 1, 209, 1, 210, 1, 211, 1>>
    ELSE <<208, 1, 209, 1, 210, 1>>

\* firmware.name.startsWith('sp') moves pins 14..21 up by 10 (lines 986-990)
Remap(w, pin) ==
    IF StartsWithSp(w) /\ pin >= 14 /\ pin <= 21 THEN pin + 10 ELSE pin

Spawn(w, op) == [w EXCEPT !.ops = Append(@, op)]

\* Board.prototype.pinMode, lines 973-977, called synchronously
pinMode(w, pin, mode, kind) ==
    LET o == Len(w.ops) + 1
    IN  writeToTransport(Spawn(w, [NewOp(kind, pin, 0, mode, "mode_wait")
                                      EXCEPT !.modeN = w.lock.calls + 1]),
                         <<PIN_MODE, pin, mode>>, o)

\* WriteChain that sets the mode of the pin on every call
WriteChainAlwaysMode(w, kind, pin, value, mode, data) ==
    IF Len(w.board.pins) > pin
    THEN Spawn(w, [NewOp(kind, pin, value, mode, "mode_submit")
                      EXCEPT !.setmode = TRUE, !.data = data])
    ELSE Spawn(w, NewOp(kind, pin, value, mode, "failed"))

\* the chain built by digitalWrite (lines 1002-1021) and pwmWrite (909-922)
WriteChain(w, kind, pin, value, mode, data) ==
    IF Len(w.board.pins) > pin
    THEN LET setmode == w.board.pins[pin + 1].mode # mode
             write   == w.board.pins[pin + 1].value # value \/ setmode
             pc      == IF setmode THEN "mode_submit"
                        ELSE IF write THEN "value_submit" ELSE "done"
         IN  Spawn(w, [NewOp(kind, pin, value, mode, pc)
                          EXCEPT !.setmode = setmode, !.data = data])
    ELSE Spawn(w, NewOp(kind, pin, value, mode, "failed"))

\* Board.prototype.digitalWrite, lines 985-1023
digitalWrite(w, pin0, value) ==
    LET pin  == Remap(w, pin0)
        port == pin \div 8
        bit  == 2 ^ (pin % 8)
        w1   == [w EXCEPT !.board.ports[port] =
                     IF value # 0 THEN BitOr(@, bit) ELSE BitClear(@, bit)]
    IN  WriteChain(w1, "digitalWrite", pin, value, MODE_OUTPUT, <<>>)

\* Board.prototype.pwmWrite, lines 882-924 (pins up to 15: ANALOG_MESSAGE)
pwmWrite(w, mode, pin, value) ==
    WriteChain(w, "pwmWrite", pin, value, mode,
               <<BitOr(ANALOG_MESSAGE, pin), value % 128, (value \div 128) % 128>>)

\* Board.prototype.servoConfig, lines 942-965.  this.pins[pin].mode throws a
\* TypeError when pins[pin] is undefined: the call fails before anything is
\* written.
servoConfig(w, pin, min, max) ==
    LET o == Len(w.ops) + 1
    IN  IF pin >= Len(w.board.pins)
        THEN Spawn(w, NewOp("servoConfig", pin, 0, MODE_SERVO, "failed"))
        ELSE IF w.board.pins[pin + 1].mode = MODE_SERVO
        THEN Spawn(w, NewOp("servoConfig", pin, 0, MODE_SERVO, "done"))
        ELSE writeToTransport(
                 Spawn(w, NewOp("servoConfig", pin, 0, MODE_SERVO, "servo_wait")),
                 <<START_SYSEX, SERVO_CONFIG, pin, min % 128, (min \div 128) % 128,
                   max % 128, (max \div 128) % 128, END_SYSEX>>, o)

\* digitalRead that asks the board whatever the mode of the pin is
digitalReadAlways(w, pin0) ==
    LET pin == Remap(w, pin0)
        o   == Len(w.ops) + 1
    IN  IF Len(w.board.pins) > pin
        THEN LET w1 == Spawn(w, [NewOp("digitalRead", pin, 0, MODE_INPUT, "pending")
                                    EXCEPT !.timer = TRUE])
                 w2 == Once(w1, "digital-read", pin, "resolve", o)
                 w3 == pinMode(w2, pin, MODE_INPUT, "pinMode")
             IN  writeToTransport(w3, ReportDigitalData(w), 0)
        ELSE Spawn(w, NewOp("digitalRead", pin, 0, MODE_INPUT, "failed"))

\* Board.prototype.digitalRead, lines 1032-1055
digitalRead(w, pin0) ==
    LET pin == Remap(w, pin0)
        o   == Len(w.ops) + 1
    IN  IF Len(w.board.pins) > pin
        THEN IF w.board.pins[pin + 1].mode # MODE_INPUT
             THEN LET w1 == Spawn(w, [NewOp("digitalRead", pin, 0, MODE_INPUT, "pending")
                                         EXCEPT !.timer = TRUE])
                      w2 == Once(w1, "digital-read", pin, "resolve", o)
                      w3 == pinMode(w2, pin, MODE_INPUT, "pinMode")
                  IN  writeToTransport(w3, ReportDigitalData(w), 0)
             ELSE Spawn(w, [NewOp("digitalRead", pin, 0, MODE_INPUT, "resolved")
                               EXCEPT !.result = w.board.pins[pin + 1].value,
                                      !.settled = 1])
        ELSE Spawn(w, NewOp("digitalRead", pin, 0, MODE_INPUT, "failed"))

\* Board.prototype.analogRead, lines 860-874; pin is the analog channel
analogRead(w, pin) ==
    LET o == Len(w.ops) + 1
    IN  IF Len(w.board.analogPins) > pin
        THEN LET pinNumber == w.board.analogPins[pin + 1]
             IN  IF pinNumber >= Len(w.board.pins)
                 THEN Spawn(w, NewOp("analogRead", pin, 0, MODE_ANALOG, "failed"))
                 ELSE IF w.board.pins[pinNumber + 1].mode # MODE_ANALOG
                 THEN LET w1 == pinMode(w, pinNumber, MODE_ANALOG, "pinModeReport")
                          w2 == Spawn(w1, [NewOp("analogRead", pin, 0, MODE_ANALOG, "pending")
                                              EXCEPT !.timer = TRUE])
                      IN  Once([w2 EXCEPT !.ops[o].value = pin],
                               "analog-read", pin, "resolve", o + 1)
                 ELSE Spawn(w, [NewOp("analogRead", pin, 0, MODE_ANALOG, "resolved")
                                   EXCEPT !.result = w.board.pins[pinNumber + 1].value,
                                          !.settled = 1])
        ELSE Spawn(w, NewOp("analogRead", pin, 0, MODE_ANALOG, "failed"))

\* Board.prototype.i2cRequestRead, lines 1361-1373, with i2cConfig (1346-1359)
i2cRequestRead(w, addr, reg) ==
    LET o   == Len(w.ops) + 1
        key == I2CKey(addr, reg)
        hit == {d \in w.mod.i2cInputData : d.key = key}
    IN  IF hit # {}
        THEN Spawn(w, [NewOp("i2cRequestRead", addr, reg, 0, "resolved")
                          EXCEPT !.result = (CHOOSE d \in hit : TRUE).reply,
                                 !.settled = 1])
        ELSE IF w.mod.I2CActived
        THEN Spawn(w, NewOp("i2cRequestRead", addr, reg, 0, "i2c_register"))
        ELSE writeToTransport(Spawn(w, NewOp("i2cRequestRead", addr, reg, 0, "i2c_wait")),
                              <<START_SYSEX, I2C_CONFIG, 50, 0, END_SYSEX>>, o)

\* sysexResponse that replaces the handler of a command byte
sysexResponseOverwrite(w, commandByte) ==
    Spawn([w EXCEPT !.mod.sysex = @ \cup {commandByte}],
          NewOp("sysexResponse", commandByte, 0, 0, "done"))

\* Board.prototype.sysexResponse, lines 2302-2312; the registry
\* Board.SYSEX_RESPONSE is shared by every board of the module.  The
\* operation records the call: failed when the call throws.
sysexResponse(w, commandByte) ==
    IF commandByte \in SysexCommands \cup w.mod.sysex
    THEN Spawn(w, NewOp("sysexResponse", commandByte, 0, 0, "failed"))
    ELSE Spawn([w EXCEPT !.mod.sysex = @ \cup {commandByte}],
               NewOp("sysexResponse", commandByte, 0, 0, "done"))

\* Board.prototype.reset, lines 2342-2349.  The operation records the call:
\* it is complete at once when reset returns without writing.  The two
\* module flags buzzerSongStop and colorLEDFlashStop are not part of the
\* model.
reset(w) ==
    LET o == Len(w.ops) + 1
    IN  IF w.board.isClean = "true"
        THEN Spawn(w, NewOp("reset", 0, 0, 0, "done"))
        ELSE writeToTransport(Spawn(w, [NewOp("reset", 0, 0, 0, "reset_wait")
                                           EXCEPT !.valueN = w.lock.calls + 1]),
                              <<SYSTEM_RESET>>, o)

\* the pc that follows pins[pin].mode = mode in each kind of operation
AfterModeSet(kind) ==
    CASE kind = "pinMode"       -> "done"
      [] kind = "pinModeReport" -> "report_submit"
      [] OTHER                  -> "value_submit"

\* the port message of digitalWrite, built when the chain reaches it
\* (lines 1011-1015); pwmWrite sends the data built at the call
ValueData(w, op) ==
    IF op.kind = "digitalWrite"
    THEN LET port == op.pin \div 8
         IN  <<BitOr(DIGITAL_MESSAGE, port), w.board.ports[port] % 128,
               (w.board.ports[port] \div 128) % 128>>
    ELSE op.data

\* one promise continuation of operation o
Continue(w, o) ==
    LET op == w.ops[o]
    IN  CASE op.pc = "mode_submit" ->
               writeToTransport([w EXCEPT !.ops[o].pc = "mode_wait",
                                          !.ops[o].modeN = w.lock.calls + 1],
                                <<PIN_MODE, op.pin, op.mode>>, o)
          [] op.pc = "mode_set" ->
               IF op.pin < Len(w.board.pins)
               THEN [w EXCEPT !.board.pins[op.pin + 1].mode = op.mode,
                              !.ops[o].pc = AfterModeSet(op.kind)]
               ELSE FailOp(w, o)
          [] op.pc = "value_submit" ->
               writeToTransport([w EXCEPT !.ops[o].pc = "value_wait",
                                          !.ops[o].valueN = w.lock.calls + 1],
                                ValueData(w, op), o)
          [] op.pc = "value_set" ->
               IF op.pin < Len(w.board.pins)
               THEN [w EXCEPT !.board.pins[op.pin + 1].value = op.value,
                              !.ops[o].pc = "done"]
               ELSE FailOp(w, o)
          [] op.pc = "report_submit" ->
               writeToTransport([w EXCEPT !.ops[o].pc = "report_wait"],
                                <<BitOr(REPORT_ANALOG, op.value), 1>>, o)
          [] op.pc = "report_set" ->
               LET pn == At(w.board.analogPins, op.value)
               IN  IF pn # Undefined /\ pn < Len(w.board.pins)
                   THEN [w EXCEPT !.board.pins[pn + 1].report = 1, !.ops[o].pc = "done"]
                   ELSE FailOp(w, o)
          [] op.pc = "i2c_set" ->
               [w EXCEPT !.mod.I2CActived = TRUE, !.ops[o].pc = "i2c_register"]
          [] op.pc = "i2c_register" ->
               writeToTransport(
                   Once([w EXCEPT !.ops[o].pc = "pending", !.ops[o].timer = TRUE],
                        "I2C-reply", I2CKey(op.pin, op.value), "resolve", o),
                   <<START_SYSEX, I2C_REQUEST, op.pin % 128, 8, op.value % 128,
                     (op.value \div 128) % 128, 1, 0, END_SYSEX>>, 0)
          [] OTHER -> w

Runnable == {"mode_submit", "mode_set", "value_submit", "value_set",
             "report_submit", "report_set", "i2c_set", "i2c_register"}

\* setTimeout(_ => reject(...), 1000) of a read-style operation fires
readTimeout(w, o) ==
    SettleOp([w EXCEPT !.ops[o].timer = FALSE], o, "rejected", Undefined)

StepInit ==
    /\ initThen > 0
    /\ \E w \in {initDone(World)} : Commit(w)
    /\ UNCHANGED <<rest, ref>>

StepOp ==
    \E o \in 1..Len(ops) :
        /\ ops[o].pc \in Runnable
        /\ \E w \in {Continue(World, o)} : InBounds(w) /\ Commit(w)
        /\ UNCHANGED <<rest, ref>>

ReadTimeout ==
    \E o \in 1..Len(ops) :
        /\ ops[o].timer
        /\ \E w \in {readTimeout(World, o)} : Commit(w)
        /\ UNCHANGED <<rest, ref>>

CallPinMode(P, M) ==
    \E pin \in P, mode \in M :
        /\ \E w \in {pinMode(World, pin, mode, "pinMode")} : InBounds(w) /\ Commit(w)
        /\ UNCHANGED <<rest, ref>>

CallDigitalWrite(P, V) ==
    \E pin \in P, value \in V :
        /\ \E w \in {digitalWrite(World, pin, value)} : InBounds(w) /\ Commit(w)
        /\ UNCHANGED <<rest, ref>>

CallAnalogWrite(P, V) ==
    \E pin \in P, value \in V :
        /\ \E w \in {pwmWrite(World, MODE_PWM, pin, value)} : InBounds(w) /\ Commit(w)
        /\ UNCHANGED <<rest, ref>>

CallDigitalRead(P) ==
    \E pin \in P :
        /\ \E w \in {digitalRead(World, pin)} : InBounds(w) /\ Commit(w)
        /\ UNCHANGED <<rest, ref>>

CallAnalogRead(P) ==
    \E pin \in P :
        /\ \E w \in {analogRead(World, pin)} : InBounds(w) /\ Commit(w)
        /\ UNCHANGED <<rest, ref>>

CallServoConfig(P) ==
    \E pin \in P :
        /\ \E w \in {servoConfig(World, pin, 544, 2400)} : InBounds(w) /\ Commit(w)
        /\ UNCHANGED <<rest, ref>>

CallReset ==
    /\ \E w \in {reset(World)} : InBounds(w) /\ Commit(w)
    /\ UNCHANGED <<rest, ref>>

CallI2cRequestRead(A, R) ==
    \E addr \in A, reg \in R :
        /\ \E w \in {i2cRequestRead(World, addr, reg)} : InBounds(w) /\ Commit(w)
        /\ UNCHANGED <<rest, ref>>

(***************************************************************************)
(* Specifications.                                                         *)
(***************************************************************************)
NoRef == [fed |-> FALSE, board |-> NewBoard, calls |-> <<>>]

\* the state after new Board(port)
Init ==
    /\ board = NewBoard
    /\ mod = NewMod
    /\ once = <<>>
    /\ lock = NewLock
    /\ inflight = <<>>
    /\ wire = <<>>
    /\ timers = {}
    /\ ops = <<>>
    /\ initThen = 0
    /\ emitted = <<>>
    /\ calls = <<>>
    /\ hist = NewHist
    /\ readyAt = <<>>
    /\ rest = <<>>
    /\ ref = NoRef

\* Connection life cycle and handshake: inbound chunks are whole handshake
\* frames or pieces of them.
ConnFrames ==
    { <<REPORT_VERSION, 2, 5>>,
      <<START_SYSEX, QUERY_FIRMWARE, 2, 5, END_SYSEX>>,
      <<START_SYSEX, CAPABILITY_RESPONSE, 127, END_SYSEX>>,
      <<START_SYSEX, ANALOG_MAPPING_RESPONSE, 127, END_SYSEX>>,
      <<REPORT_VERSION, 2>>,
      <<START_SYSEX, CAPABILITY_RESPONSE>> }

\* Promise continuations run before the next event is taken from the event
\* loop; the transport is taken to settle a write before the next event.
Quiet ==
    /\ inflight = <<>>
    /\ initThen = 0
    /\ \A o \in 1..Len(ops) : ops[o].pc \notin Runnable

Open == Quiet /\ TransportOpen

Disconnect == Quiet /\ TransportDisconnect

Timer == Quiet /\ TimerFires

Data == Quiet /\ hist.open /\ TransportFrames(ConnFrames)

Next ==
    \/ Open
    \/ Disconnect
    \/ Timer
    \/ Data
    \/ TransportSettles
    \/ StepInit

Spec == Init /\ [][Next]_vars

\* The same connection life cycle with the scheduling the event loop gives:
\* a pending timer fires, a pending write settles, a ready continuation runs.
SpecLive ==
    /\ Init
    /\ [][Next]_vars
    /\ WF_vars(Timer)
    /\ WF_vars(TransportSettles)
    /\ WF_vars(StepInit)

\* Reconnection to another board: the handshake frames of two boards whose
\* capability replies declare different ANALOG and PWM resolutions, across a
\* disconnect and a new open.
ReconnFrames ==
    { <<REPORT_VERSION, 2, 5>>,
      <<START_SYSEX, QUERY_FIRMWARE, 2, 5, END_SYSEX>>,
      <<START_SYSEX, CAPABILITY_RESPONSE, MODE_ANALOG, 10, MODE_PWM, 8, 127, END_SYSEX>>,
      <<START_SYSEX, CAPABILITY_RESPONSE, MODE_ANALOG, 12, MODE_ANALOG, 10, 127, END_SYSEX>>,
      <<START_SYSEX, ANALOG_MAPPING_RESPONSE, 0, END_SYSEX>> }

DataReconnect == Quiet /\ hist.open /\ TransportFrames(ReconnFrames)

NextReconnect ==
    \/ Open
    \/ Disconnect
    \/ DataReconnect
    \/ TransportSettles
    \/ StepInit

SpecReconnect == Init /\ [][NextReconnect]_vars

\* Frame parser: inbound chunks of up to MaxChunk arbitrary bytes of
\* ParseBytes, across disconnects.
ParseBytes ==
    {2, STRING_DATA, DIGITAL_MESSAGE, START_SYSEX, END_SYSEX, REPORT_VERSION}

DataBytes == hist.open /\ TransportData(ParseBytes)

NextParse ==
    \/ TransportOpen
    \/ TransportDisconnect
    \/ DataBytes

SpecParse == Init /\ [][NextParse]_vars

\* Frame parser, one inbound byte per step: every byte of ByteSet in every
\* parser state, across opens and disconnects; rest holds the byte fed by
\* the step (empty after an open or a disconnect).
ByteSet ==
    {0, 2, PIN_STATE_RESPONSE, STRING_DATA, DIGITAL_MESSAGE, START_SYSEX,
     END_SYSEX, REPORT_VERSION, SYSTEM_RESET}

ByteOpen ==
    /\ hist.opens < MaxOpens
    /\ \E w \in {OnOpen(World)} : InBounds(w) /\ Commit(w)
    /\ rest' = <<>>
    /\ UNCHANGED ref

ByteDisconnect ==
    /\ hist.open
    /\ \E w \in {OnDisconnect(World)} : Commit(w)
    /\ rest' = <<>>
    /\ UNCHANGED ref

ByteArrives ==
    /\ hist.open
    /\ \E b \in ByteSet :
          \E w \in {DataHandler(World, <<b>>)} :
              /\ InBounds(w)
              /\ Commit(w)
              /\ rest' = <<b>>
    /\ UNCHANGED ref

NextBytes ==
    \/ ByteOpen
    \/ ByteDisconnect
    \/ ByteArrives

SpecBytes == Init /\ [][NextBytes]_vars

\* Chunking: one inbound byte sequence of up to MaxInput bytes of ChunkBytes
\* is fed to the 'data' handler once as a single chunk (the outcome is kept
\* in ref) and once split into consecutive chunks, every split being
\* explored; calls accumulates over the chunks.
ChunkBytes ==
    {0, 2, PIN_STATE_RESPONSE, START_SYSEX, END_SYSEX, REPORT_VERSION}

Inputs == UNION {[1..n -> ChunkBytes] : n \in 1..MaxInput}

\* the state after new Board(port), as a record
World0 ==
    [board |-> NewBoard, mod |-> NewMod, once |-> <<>>, lock |-> NewLock,
     inflight |-> <<>>, wire |-> <<>>, timers |-> {}, ops |-> <<>>,
     initThen |-> 0,
     emitted |-> <<>>, calls |-> <<>>, hist |-> NewHist, readyAt |-> <<>>,
     thrown |-> FALSE]

\* the states the input meets: an open connection before and after the
\* version report
Opened == OnOpen(World0)

Versioned == DataHandler(Opened, <<REPORT_VERSION, 2, 5>>)

InitChunks ==
    \E w \in {Opened, Versioned} : \E input \in Inputs :
        /\ board = w.board
        /\ mod = w.mod
        /\ once = w.once
        /\ lock = w.lock
        /\ inflight = w.inflight
        /\ wire = w.wire
        /\ timers = w.timers
        /\ ops = w.ops
        /\ initThen = w.initThen
        /\ emitted = <<>>
        /\ calls = <<>>
        /\ hist = w.hist
        /\ readyAt = <<>>
        /\ rest = input
        /\ ref = NoRef

FeedWhole ==
    /\ ~ref.fed
    /\ \E w \in {DataHandler(World, rest)} :
          ref' = [fed |-> TRUE, board |-> w.board, calls |-> w.calls]
    /\ UNCHANGED <<board, mod, once, lock, inflight, wire, timers, ops,
                   initThen, emitted, calls, hist, readyAt, rest>>

FeedChunk ==
    /\ ref.fed
    /\ \E n \in 1..Len(rest) :
          \E w \in {DataHandler(World, SubSeq(rest, 1, n))} :
              /\ Commit([w EXCEPT !.calls = calls \o @])
              /\ rest' = SubSeq(rest, n + 1, Len(rest))
    /\ UNCHANGED ref

NextChunks ==
    \/ FeedWhole
    \/ FeedChunk

SpecChunks == InitChunks /\ [][NextChunks]_vars

\* every pending write settles successfully and every continuation of
\* init() runs
RECURSIVE Settled(_)
Settled(w) ==
    IF w.inflight # <<>> THEN Then(SettleWrite(w, 1, TRUE), LAMBDA x : Settled(x))
    ELSE IF w.initThen > 0 THEN Then(initDone(w), LAMBDA x : Settled(x))
    ELSE w

\* a board with two pins: pin 0 supports INPUT and OUTPUT, pin 1 supports
\* INPUT, OUTPUT, ANALOG (analog channel 0) and PWM
TwoPins ==
    <<START_SYSEX, CAPABILITY_RESPONSE, MODE_INPUT, 1, MODE_OUTPUT, 1, 127,
      MODE_INPUT, 1, MODE_OUTPUT, 1, MODE_ANALOG, 10, MODE_PWM, 8, 127,
      END_SYSEX>>

\* the state after the handshake with that board: open, version report,
\* firmware reply, capability reply, analog-mapping reply, all writes settled
Received(w, data) == Then(DataHandler(w, data), LAMBDA x : Settled(x))

Handshaken ==
    Then(Received(Versioned, <<START_SYSEX, QUERY_FIRMWARE, 2, 5, END_SYSEX>>),
         LAMBDA w1 :
           Then(Received(w1, TwoPins),
                LAMBDA w2 :
                  Received(w2, <<START_SYSEX, ANALOG_MAPPING_RESPONSE, 127, 0,
                                 END_SYSEX>>)))

\* Version report: the frame [REPORT_VERSION, major, minor], for every major
\* and minor up to MaxVersion, is fed as one chunk to a parser with an empty
\* buffer: before the handshake, after the version report and on the ready
\* board.  rest holds the frame until it is fed.
InitVersion ==
    \E w \in {Opened, Versioned, Handshaken} :
        \E major, minor \in 0..MaxVersion :
            /\ board = w.board
            /\ mod = w.mod
            /\ once = w.once
            /\ lock = w.lock
            /\ inflight = w.inflight
            /\ wire = w.wire
            /\ timers = w.timers
            /\ ops = w.ops
            /\ initThen = w.initThen
            /\ emitted = <<>>
            /\ calls = <<>>
            /\ hist = w.hist
            /\ readyAt = <<>>
            /\ rest = <<REPORT_VERSION, major, minor>>
            /\ ref = NoRef

FeedVersion ==
    /\ rest # <<>>
    /\ \E w \in {DataHandler(World, rest)} : Commit(w)
    /\ rest' = <<>>
    /\ UNCHANGED ref

NextVersion == FeedVersion

SpecVersion == InitVersion /\ [][NextVersion]_vars

\* Capability and analog-mapping replies: a capability reply with up to
\* MaxCap payload bytes of CapBytes immediately followed by an analog-mapping
\* reply with up to MaxMap payload bytes of MapBytes, fed to the board after
\* the version report and to the ready board (whose pins were created by an
\* earlier capability reply).  rest holds the frames not fed yet.
CapBytes == {MODE_INPUT, MODE_ANALOG, 32, 127}

MapBytes == {0, 1, 127}

Payloads(S, n) == UNION {[1..k -> S] : k \in 0..n}

SysexFrame(cmd, payload) == <<START_SYSEX, cmd>> \o payload \o <<END_SYSEX>>

InitCaps ==
    \E w \in {Versioned, Handshaken} :
        \E cap \in Payloads(CapBytes, MaxCap), map \in Payloads(MapBytes, MaxMap) :
            /\ board = w.board
            /\ mod = w.mod
            /\ once = w.once
            /\ lock = w.lock
            /\ inflight = w.inflight
            /\ wire = w.wire
            /\ timers = w.timers
            /\ ops = w.ops
            /\ initThen = w.initThen
            /\ emitted = <<>>
            /\ calls = <<>>
            /\ hist = w.hist
            /\ readyAt = <<>>
            /\ rest = << SysexFrame(CAPABILITY_RESPONSE, cap),
                         SysexFrame(ANALOG_MAPPING_RESPONSE, map) >>
            /\ ref = NoRef

FeedFrame ==
    /\ rest # <<>>
    /\ \E w \in {DataHandler(World, Head(rest))} : Commit(w)
    /\ rest' = Tail(rest)
    /\ UNCHANGED ref

NextCaps == FeedFrame

SpecCaps == InitCaps /\ [][NextCaps]_vars

\* Digital messages: a ready board with MaxPins pins, of which pins 0, 1
\* and 8 start in any of the modes INPUT, PULLUP and OUTPUT with any value
\* (ports mirroring the values), receives digital messages for ports 0 and
\* 1.  rest holds the message decoded by the last step.
DigitalModes == {MODE_INPUT, MODE_PULLUP, MODE_OUTPUT}

DigitalBoard(m, v) ==
    [Handshaken.board EXCEPT
       !.pins = [i \in 1..MaxPins |->
                   IF (i - 1) \in DOMAIN m
                   THEN [NewPin({}) EXCEPT !.mode = m[i - 1], !.value = v[i - 1]]
                   ELSE NewPin({})],
       !.analogPins = <<>>,
       !.ports = [p \in 0..15 |->
                    CASE p = 0 -> v[0] + 2 * v[1]
                      [] p = 1 -> v[8]
                      [] OTHER -> 0]]

InitDigital ==
    \E w \in {Handshaken} :
        \E m \in [{0, 1, 8} -> DigitalModes], v \in [{0, 1, 8} -> {0, 1}] :
            /\ board = DigitalBoard(m, v)
            /\ mod = w.mod
            /\ once = w.once
            /\ lock = w.lock
            /\ inflight = w.inflight
            /\ wire = w.wire
            /\ timers = w.timers
            /\ ops = w.ops
            /\ initThen = w.initThen
            /\ emitted = <<>>
            /\ calls = <<>>
            /\ hist = w.hist
            /\ readyAt = <<>>
            /\ rest = <<>>
            /\ ref = NoRef

DigitalMessages ==
    {<<DIGITAL_MESSAGE + port, lsb, msb>> : port \in {0, 1}, lsb \in 0..3, msb \in {0, 1}}

DigitalMessageArrives ==
    /\ \E msg \in DigitalMessages :
          \E w \in {DataHandler(World, msg)} :
              /\ Commit(w)
              /\ rest' = msg
    /\ UNCHANGED ref

NextDigital == DigitalMessageArrives

SpecDigital == InitDigital /\ [][NextDigital]_vars

\* Pin operations on the board after the handshake; the logs start empty.
InitIO ==
    \E w \in {Handshaken} :
        /\ board = w.board
        /\ mod = w.mod
        /\ once = w.once
        /\ lock = [w.lock EXCEPT !.calls = 0]
        /\ inflight = w.inflight
        /\ wire = <<>>
        /\ timers = w.timers
        /\ ops = w.ops
        /\ initThen = w.initThen
        /\ emitted = <<>>
        /\ calls = <<>>
        /\ hist = w.hist
        /\ readyAt = <<>>
        /\ rest = <<>>
        /\ ref = NoRef

PinModeCall == Len(ops) < MaxCalls /\ CallPinMode({0}, {MODE_OUTPUT, MODE_PWM})

DigitalWriteCall == Len(ops) < MaxCalls /\ CallDigitalWrite({0, 1}, {1})

AnalogWriteCall == Len(ops) < MaxCalls /\ CallAnalogWrite({1}, {200})

NextIO ==
    \/ PinModeCall
    \/ DigitalWriteCall
    \/ AnalogWriteCall
    \/ StepOp
    \/ TransportSettles
    \/ LockTimeout

SpecIO == InitIO /\ [][NextIO]_vars

\* Read-style operations on the board after the handshake, racing the
\* replies of the firmware and their deadlines.
ReadFrames ==
    { <<DIGITAL_MESSAGE, 1, 0>>,
      <<ANALOG_MESSAGE, 5, 0>>,
      <<START_SYSEX, I2C_REPLY, 8, 0, 0, 0, 7, 0, END_SYSEX>> }

DigitalReadCall == CallDigitalRead({0})

AnalogReadCall == CallAnalogRead({0})

I2cReadCall == CallI2cRequestRead({8}, {0})

\* promise continuations run before the next event (a reply, a timer, the
\* completion of a write) is taken from the event loop
NoContinuation == \A o \in 1..Len(ops) : ops[o].pc \notin Runnable

Replies == NoContinuation /\ TransportFrames(ReadFrames)

Deadline == NoContinuation /\ ReadTimeout

Written == NoContinuation /\ TransportSettles

NextRead ==
    \/ DigitalReadCall
    \/ AnalogReadCall
    \/ I2cReadCall
    \/ Replies
    \/ Deadline
    \/ Written
    \/ StepOp

SpecRead == InitIO /\ [][NextRead]_vars

\* Writes submitted faster than the transport completes them, until the
\* queue of the lock is full.  Every queued task carries the same timeout, so
\* the oldest waiting task is the one whose timeout fires first.
SubmitWrite ==
    /\ NoContinuation
    /\ Len(ops) < MaxSubmit
    /\ \E w \in {pinMode(World, 0, MODE_OUTPUT, "pinMode")} : Commit(w)
    /\ UNCHANGED <<rest, ref>>

QueueTimeout ==
    /\ NoContinuation
    /\ \E i \in 1..Len(lock.queue) :
          /\ ~lock.queue[i].dead
          /\ \A j \in 1..(i - 1) : lock.queue[j].dead
          /\ \E w \in {FailOp([World EXCEPT !.lock.queue[i].dead = TRUE],
                              lock.queue[i].owner)} : Commit(w)
    /\ UNCHANGED <<rest, ref>>

\* the continuation of a completed write: this.pins[pin].mode = mode
ModeIsSet ==
    /\ \E o \in 1..Len(ops) :
          /\ ops[o].pc = "mode_set"
          /\ \E w \in {Continue(World, o)} : Commit(w)
    /\ UNCHANGED <<rest, ref>>

\* the transport is slow but completes the write it was handed
WriteCompletes ==
    /\ NoContinuation
    /\ inflight # <<>>
    /\ \E w \in {SettleWrite(World, 1, TRUE)} : Commit(w)
    /\ UNCHANGED <<rest, ref>>

NextLock ==
    \/ SubmitWrite
    \/ QueueTimeout
    \/ WriteCompletes
    \/ ModeIsSet

SpecLock == InitIO /\ [][NextLock]_vars

\* reset() and writes on a board that has never been initialised (isClean
\* was never assigned), on the ready board (isClean is true), and on the
\* ready board that has received another version report: init() has run
\* again and its write is in flight.
Initialising == DataHandler(Handshaken, <<REPORT_VERSION, 2, 5>>)

ResetBoards == {World0, Handshaken, Initialising}

InitReset ==
    \E w \in ResetBoards :
        /\ board = w.board
        /\ mod = w.mod
        /\ once = w.once
        /\ lock = w.lock
        /\ inflight = w.inflight
        /\ wire = <<>>
        /\ timers = w.timers
        /\ ops = w.ops
        /\ initThen = w.initThen
        /\ emitted = <<>>
        /\ calls = <<>>
        /\ hist = w.hist
        /\ readyAt = <<>>
        /\ rest = <<>>
        /\ ref = NoRef

ResetCall == Len(ops) < MaxCalls /\ CallReset

NextReset ==
    \/ ResetCall
    \/ PinModeCall
    \/ StepOp
    \/ StepInit
    \/ TransportSettles
    \/ LockTimeout

SpecReset == InitReset /\ [][NextReset]_vars

\* User-registered SysEx handlers: registrations for a built-in command byte
\* and for two free ones, and frames for those bytes arriving on the ready
\* board.  rest holds the frame just fed.
UserBytes == {STRING_DATA, 80, 81}

UserFrames == {SysexFrame(c, p) : c \in UserBytes, p \in Payloads({1, 2}, 2)}

RegisterCall ==
    /\ Len(ops) < MaxCalls
    /\ \E c \in UserBytes : Commit(sysexResponse(World, c))
    /\ UNCHANGED <<rest, ref>>

SysexArrives ==
    \E f \in UserFrames :
        /\ Commit(DataHandler(World, f))
        /\ rest' = f
        /\ UNCHANGED ref

NextSysex ==
    \/ RegisterCall
    \/ SysexArrives

SpecSysex == InitIO /\ [][NextSysex]_vars

\* Board.encode and Board.decode applied in turn to [v], for every v up to
\* MaxValue.  rest holds the sequence the next call is applied to, calls the
\* argument (frame) and the result (arg) of each call made.
InitCodec ==
    \E v \in 0..MaxValue :
        /\ board = NewBoard
        /\ mod = NewMod
        /\ once = <<>>
        /\ lock = NewLock
        /\ inflight = <<>>
        /\ wire = <<>>
        /\ timers = {}
        /\ ops = <<>>
        /\ initThen = 0
        /\ emitted = <<>>
        /\ calls = <<>>
        /\ hist = NewHist
        /\ readyAt = <<>>
        /\ rest = <<v>>
        /\ ref = NoRef

Encode ==
    /\ calls = <<>>
    /\ calls' = <<[h |-> "encode", frame |-> rest, vr |-> FALSE, run |-> TRUE,
                   arg |-> encode(rest)]>>
    /\ rest' = encode(rest)
    /\ UNCHANGED <<board, mod, once, lock, inflight, wire, timers, ops,
                   initThen, emitted, hist, readyAt, ref>>

Decode ==
    /\ Len(calls) = 1
    /\ calls' = Append(calls, [h |-> "decode", frame |-> rest, vr |-> FALSE,
                               run |-> TRUE, arg |-> decode(rest)])
    /\ rest' = <<>>
    /\ UNCHANGED <<board, mod, once, lock, inflight, wire, timers, ops,
                   initThen, emitted, hist, readyAt, ref>>

NextCodec ==
    \/ Encode
    \/ Decode

SpecCodec == InitCodec /\ [][NextCodec]_vars

\* Overlapping digitalWrite calls on pin 0 of the ready board, the pin being
\* in OUTPUT mode with value 0: pinMode(0, OUTPUT) has completed.
OutputBoard ==
    Then(pinMode(Handshaken, 0, MODE_OUTPUT, "pinMode"),
         LAMBDA w1 : Then(SettleWrite(w1, 1, TRUE), LAMBDA w2 : Continue(w2, 1)))

InitOverlap ==
    \E w \in {OutputBoard} :
        /\ board = w.board
        /\ mod = w.mod
        /\ once = w.once
        /\ lock = w.lock
        /\ inflight = w.inflight
        /\ wire = <<>>
        /\ timers = w.timers
        /\ ops = w.ops
        /\ initThen = w.initThen
        /\ emitted = <<>>
        /\ calls = <<>>
        /\ hist = w.hist
        /\ readyAt = <<>>
        /\ rest = <<>>
        /\ ref = NoRef

DigitalWriteAgain == Len(ops) <= MaxCalls /\ CallDigitalWrite({0}, {0, 1})

NextOverlap ==
    \/ DigitalWriteAgain
    \/ StepOp
    \/ TransportSettles
    \/ LockTimeout

SpecOverlap == InitOverlap /\ [][NextOverlap]_vars

\* The handshake with repeated replies and with interrupted connections:
\* whole handshake frames in any order and number, up to MaxLog writes.
ReadyFrames ==
    { <<REPORT_VERSION, 2, 5>>,
      <<START_SYSEX, QUERY_FIRMWARE, 2, 5, END_SYSEX>>,
      <<START_SYSEX, CAPABILITY_RESPONSE, 127, END_SYSEX>>,
      <<START_SYSEX, ANALOG_MAPPING_RESPONSE, 127, END_SYSEX>> }

ReadyData ==
    /\ Quiet
    /\ hist.open
    /\ \E data \in ReadyFrames :
          \E w \in {DataHandler(World, data)} :
              /\ Len(w.wire) + Len(w.lock.queue) <= MaxLog
              /\ Commit(w)
    /\ UNCHANGED <<rest, ref>>

NextReady ==
    \/ Open
    \/ Disconnect
    \/ ReadyData
    \/ TransportSettles
    \/ StepInit

SpecReady == Init /\ [][NextReady]_vars

\* The connection life cycle with transport errors.
Error == Quiet /\ TransportError

NextError ==
    \/ Open
    \/ Disconnect
    \/ Error
    \/ Timer
    \/ Data
    \/ TransportSettles
    \/ StepInit

SpecError == Init /\ [][NextError]_vars

\* Calls addressed to a pin the board does not have: pin 2 (analog channel 1)
\* of the two-pin board after the handshake, and the same calls on the board
\* that has received the version report but no capability reply (pins is
\* empty).
RangeBoards == {Handshaken, Settled(Versioned)}

InitRange ==
    \E w \in RangeBoards :
        /\ board = w.board
        /\ mod = w.mod
        /\ once = w.once
        /\ lock = [w.lock EXCEPT !.calls = 0]
        /\ inflight = w.inflight
        /\ wire = <<>>
        /\ timers = w.timers
        /\ ops = w.ops
        /\ initThen = w.initThen
        /\ emitted = <<>>
        /\ calls = <<>>
        /\ hist = w.hist
        /\ readyAt = <<>>
        /\ rest = <<>>
        /\ ref = NoRef

PinModeFar == Len(ops) < MaxCalls /\ CallPinMode({2}, {MODE_OUTPUT})

DigitalWriteFar == Len(ops) < MaxCalls /\ CallDigitalWrite({2}, {0, 1})

AnalogWriteFar == Len(ops) < MaxCalls /\ CallAnalogWrite({2}, {200})

DigitalReadFar == Len(ops) < MaxCalls /\ CallDigitalRead({2})

AnalogReadFar == Len(ops) < MaxCalls /\ CallAnalogRead({1})

ServoConfigFar == Len(ops) < MaxCalls /\ CallServoConfig({2})

NextRange ==
    \/ PinModeFar
    \/ DigitalWriteFar
    \/ AnalogWriteFar
    \/ DigitalReadFar
    \/ AnalogReadFar
    \/ ServoConfigFar
    \/ StepOp
    \/ TransportSettles
    \/ LockTimeout

SpecRange == InitRange /\ [][NextRange]_vars

\* Resynchronisation: on a board that has received the version report, single
\* bytes of NoiseBytes bring the buffer into every state the parser can hold,
\* and well-formed frames are fed whole in any of them.  rest holds the frame
\* fed by the last step (empty after a noise byte), ref.board the board as the
\* frame found it.
NoiseBytes ==
    {2, PIN_STATE_RESPONSE, ANALOG_MESSAGE, START_SYSEX, END_SYSEX,
     SYSTEM_RESET}

WellFormed ==
    {<<REPORT_VERSION, 2, 5>>,
     <<ANALOG_MESSAGE, 5, 1>>,
     <<DIGITAL_MESSAGE, 1, 0>>,
     <<START_SYSEX, STRING_DATA, END_SYSEX>>,
     <<START_SYSEX, STRING_DATA, 65, 0, END_SYSEX>>,
     <<START_SYSEX, QUERY_FIRMWARE, 2, 5, END_SYSEX>>}

NoiseArrives ==
    /\ \E b \in NoiseBytes :
          \E w \in {DataHandler(World, <<b>>)} :
              /\ InBounds(w)
              /\ Commit(w)
    /\ rest' = <<>>
    /\ ref' = NoRef

FrameArrives ==
    \E f \in WellFormed :
        \E w \in {DataHandler(World, f)} :
            /\ InBounds(w)
            /\ Commit(w)
            /\ rest' = f
            /\ ref' = [fed |-> TRUE, board |-> board, calls |-> <<>>]

NextDesync ==
    \/ NoiseArrives
    \/ FrameArrives

SpecDesync == InitRange /\ [][NextDesync]_vars

\* The board on the Communicator: connects to a BLE device and to a device
\* of another kind, answers of the bridge, disconnect(), errors reported to
\* msgReceiver, notifications carrying a version report, the handshake
\* timers and reset() as the writers.
Devices == {"ble_mobile", "serial"}

ConnectCall ==
    /\ hist.opens + mod.comm.connecting < MaxOpens
    /\ \E d \in Devices : \E w \in {connectInternal(World, d)} : Commit(w)
    /\ UNCHANGED <<rest, ref>>

ConnectAnswered ==
    /\ mod.comm.connecting > 0
    /\ \E ok \in BOOLEAN : \E w \in {connectResponse(World, ok)} : Commit(w)
    /\ UNCHANGED <<rest, ref>>

DisconnectCall ==
    /\ \E w \in {disconnect(World)} : Commit(w)
    /\ UNCHANGED <<rest, ref>>

ErrorReported ==
    /\ \E w \in {msgReceiver(World, <<>>, TRUE)} : Commit(w)
    /\ UNCHANGED <<rest, ref>>

Notification ==
    /\ \E w \in {handleNotification(World, <<REPORT_VERSION, 2, 5>>)} : Commit(w)
    /\ UNCHANGED <<rest, ref>>

CommTimer ==
    \E t \in timers :
        \E w \in {Transmit(IF t.stage = 1 THEN OnTimer1(World, t)
                                          ELSE OnTimer2(World, t),
                           Len(wire) + 1)} :
            /\ InBounds(w)
            /\ Commit(w)
            /\ UNCHANGED <<rest, ref>>

CommReset ==
    /\ Len(ops) < MaxCalls
    /\ \E w \in {Transmit(reset(World), Len(wire) + 1)} : InBounds(w) /\ Commit(w)
    /\ UNCHANGED <<rest, ref>>

\* the promise of the oldest write is resolved: by the bridge's answer, or
\* at once when write returned undefined
WriteAnswered ==
    /\ inflight # <<>>
    /\ \E w \in {Transmit(SettleWrite(World, 1, TRUE), Len(wire) + 1)} : Commit(w)
    /\ UNCHANGED <<rest, ref>>

NextComm ==
    \/ ConnectCall
    \/ ConnectAnswered
    \/ DisconnectCall
    \/ ErrorReported
    \/ Notification
    \/ CommTimer
    \/ CommReset
    \/ WriteAnswered
    \/ LockTimeout

SpecComm == Init /\ [][NextComm]_vars

(***************************************************************************)
(* Properties.                                                             *)
(***************************************************************************)
Raised(name) == \E i \in 1..Len(emitted) : emitted[i].name = name

Ran(cs) == SelectSeq(cs, LAMBDA c : c.run)

\* C1: for every inbound byte sequence and every way of splitting it into
\* consecutive chunks, the parser dispatches the same handlers on the same
\* frames and ends with the same currentBuffer and versionReceived as for
\* the sequence fed as one chunk.
C1_ChunkIndependence ==
    (ref.fed /\ rest = <<>>) =>
        /\ Ran(calls) = Ran(ref.calls)
        /\ board.currentBuffer = ref.board.currentBuffer
        /\ board.versionReceived = ref.board.versionReceived

\* C2: while versionReceived is false no decode handler other than the
\* version-report handler is invoked.
C2_VersionFirst ==
    \A i \in 1..Len(calls) :
        (calls[i].run /\ calls[i].h # "REPORT_VERSION") => calls[i].vr

\* a SysEx frame begun in the first connection is completed in the second
\* one before any version report, and its handler is not invoked
C2_Witness ==
    /\ hist.opens = 2
    /\ ~board.versionReceived
    /\ \E i \in 1..Len(calls) :
          /\ ~calls[i].run
          /\ calls[i].h = "STRING_DATA"
          /\ calls[i].frame = <<START_SYSEX, STRING_DATA, END_SYSEX>>

OnWire(n) == \E i \in 1..Len(wire) : wire[i].n = n

WirePos(n) == CHOOSE i \in 1..Len(wire) : wire[i].n = n

\* C3: every outbound sequence passes through the lock: at most one
\* transport.write is in flight at any time, and the sequences reach the
\* transport whole and in the order of the calls of writeToTransport.
C3_SerializedWrites ==
    /\ Len(inflight) <= 1
    /\ \A i, j \in 1..Len(wire) : i < j => wire[i].n < wire[j].n
    /\ \A i \in 1..Len(wire) :
          /\ Len(wire[i].data) = 3
          /\ wire[i].data[1] \in {PIN_MODE, DIGITAL_MESSAGE, ANALOG_MESSAGE + 1}

\* three callers with overlapping lifetimes: one write in flight, one sent
\* before it and one waiting for the lock
C3_Witness ==
    /\ Len(inflight) = 1
    /\ Len(wire) >= 2
    /\ \E i \in 1..Len(lock.queue) : ~lock.queue[i].dead

ReadKinds == {"digitalRead", "analogRead", "i2cRequestRead"}

C5_LoserRetired ==
    \A o \in 1..Len(ops) :
        ops[o].kind \in ReadKinds =>
            /\ ops[o].pc = "resolved" => ~ops[o].timer
            /\ ops[o].pc = "rejected" =>
                  \A i \in 1..Len(once) : once[i].op # o

\* C6: a pinMode, or a write that changes the mode of its pin, to a mode
\* that is not in the pin's supportedModes is rejected, sends no PIN_MODE
\* and leaves the mode of the pin unchanged.
C6_UnsupportedModeRejected ==
    \A o \in 1..Len(ops) :
        ( /\ ops[o].kind \in {"pinMode", "digitalWrite", "pwmWrite"}
          /\ ops[o].kind = "pinMode" \/ ops[o].setmode
          /\ ops[o].pin < Len(board.pins)
          /\ ops[o].mode \notin board.pins[ops[o].pin + 1].supportedModes )
        => /\ ops[o].pc = "failed"
           /\ ~OnWire(ops[o].modeN)
           /\ board.pins[ops[o].pin + 1].mode # ops[o].mode

\* C7: for a digitalWrite or pwmWrite that has to change the mode of its
\* pin, the PIN_MODE sequence is handed to the transport before the value
\* sequence of the same call, and the value sequence is never submitted
\* when the mode write has failed.
C7_ModeBeforeValue ==
    \A o \in 1..Len(ops) :
        (ops[o].kind \in {"digitalWrite", "pwmWrite"} /\ ops[o].setmode) =>
            /\ ops[o].valueN # 0 =>
                  /\ ops[o].modeN # 0
                  /\ ops[o].modeN < ops[o].valueN
                  /\ OnWire(ops[o].modeN)
                  /\ OnWire(ops[o].valueN) =>
                        WirePos(ops[o].modeN) < WirePos(ops[o].valueN)
            /\ ops[o].failedAt = "mode_wait" =>
                  /\ ops[o].valueN = 0
                  /\ ops[o].pc = "failed"

\* one write whose mode change and value are both on the wire, and one whose
\* mode write has failed
C7_Witness ==
    /\ \E o \in 1..Len(ops) :
          /\ ops[o].kind = "digitalWrite"
          /\ ops[o].setmode
          /\ OnWire(ops[o].modeN)
          /\ OnWire(ops[o].valueN)
    /\ \E o \in 1..Len(ops) :
          /\ ops[o].kind \in {"digitalWrite", "pwmWrite"}
          /\ ops[o].setmode
          /\ ops[o].failedAt = "mode_wait"

\* C8: after a transport 'disconnect' the connection state is back to its
\* initial values: versionReceived is false, isReady is false and
\* currentBuffer is empty.
C8_DisconnectResets ==
    Raised("disconnect") =>
        /\ board.versionReceived = FALSE
        /\ board.isReady = FALSE
        /\ board.currentBuffer = <<>>

\* C9: ready() runs only after a version report, a firmware reply, a
\* capability reply and then an analog-mapping reply have all been decoded
\* since the last disconnect.
C9_ReadyAfterHandshake ==
    \A i \in 1..Len(readyAt) :
        /\ readyAt[i].version
        /\ readyAt[i].firmware
        /\ readyAt[i].capability
        /\ readyAt[i].mapping

\* C10: 'timeout' is raised only when no version report has been decoded
\* since the most recent transport 'open'.
C10_TimeoutOnlyWithoutVersion ==
    Raised("timeout") => ~hist.sinceOpen

\* a version request and, after it, a firmware query have been handed to
\* the transport
RequestsSent ==
    \E i, j \in 1..Len(wire) :
        /\ i < j
        /\ wire[i].data = <<REPORT_VERSION>>
        /\ wire[j].data = <<START_SYSEX, QUERY_FIRMWARE, END_SYSEX>>

\* the log of writes has no room for two more sequences
WireFull == Len(wire) + Len(lock.queue) + 2 > MaxWire

\* C11: after a transport 'open' the board eventually sends a version
\* request followed by a firmware query, whatever arrives during the grace
\* period.  Stated for an 'open' before which nothing has been sent, so that
\* the requests seen are those of this connection; a behaviour in which the
\* log of writes has no room left for the two requests is not counted.
C11_RequestsAfterOpen ==
    []((Raised("open") /\ wire = <<>>) => <>(RequestsSent \/ WireFull))

\* the candidate buffer holds a terminated SysEx frame: its first byte is
\* START_SYSEX and the byte appended last is END_SYSEX
TerminatedSysex(buf) ==
    /\ Len(buf) >= 2
    /\ buf[1] = START_SYSEX
    /\ buf[Len(buf)] = END_SYSEX

\* C12: once an END_SYSEX appended to a buffer that starts with START_SYSEX
\* has been processed the buffer is empty, whether the handler was invoked,
\* missing, skipped or failing: no terminated SysEx frame is left in
\* currentBuffer.
C12_SysexAlwaysCleared ==
    ~TerminatedSysex(board.currentBuffer)

\* the candidate buffer holds a SysEx frame that is not terminated
OpenSysex(buf) ==
    /\ Len(buf) >= 1
    /\ buf[1] = START_SYSEX
    /\ buf[Len(buf)] # END_SYSEX

\* C13: when the buffer starts with START_SYSEX and is not terminated, an
\* arriving byte above 0x7F other than END_SYSEX leaves the buffer holding
\* exactly that byte, an arriving byte of 0x7F or less is appended, and no
\* handler is invoked in either case.
C13_IncompleteSysex ==
    [][\A b \in ByteSet :
          (rest' = <<b>> /\ OpenSysex(board.currentBuffer) /\ b # END_SYSEX) =>
              /\ calls' = <<>>
              /\ board'.currentBuffer =
                    IF b > 127 THEN <<b>> ELSE Append(board.currentBuffer, b)]_vars

\* a byte that opens no frame has just replaced an incomplete SysEx
C13_Witness ==
    /\ rest = <<SYSTEM_RESET>>
    /\ board.currentBuffer = <<SYSTEM_RESET>>

\* C14: when the buffer reaches 3 bytes and its first byte is not
\* START_SYSEX, the handler of its opcode is invoked, on that frame, if and
\* only if versionReceived is true or the first byte is REPORT_VERSION; the
\* buffer is empty afterwards in both cases; and versionReceived goes from
\* false to true only in a step that dispatches a version report.
C14_ShortDispatch ==
    [][/\ \A b \in ByteSet :
             ( /\ rest' = <<b>>
               /\ Len(board.currentBuffer) = 2
               /\ board.currentBuffer[1] # START_SYSEX ) =>
                 /\ board'.currentBuffer = <<>>
                 /\ IF board.versionReceived \/ board.currentBuffer[1] = REPORT_VERSION
                    THEN calls' = << [h |-> MidiName(Response(board.currentBuffer[1])),
                                      frame |-> Append(board.currentBuffer, b),
                                      vr |-> board.versionReceived,
                                      run |-> TRUE, arg |-> <<>>] >>
                    ELSE Ran(calls') = <<>>
       /\ (~board.versionReceived /\ board'.versionReceived) =>
             \E i \in 1..Len(calls') :
                 calls'[i].run /\ calls'[i].h = "REPORT_VERSION"]_vars

\* a digital message completed before the version report: not dispatched,
\* and the buffer is empty
C14_Witness ==
    /\ ~board.versionReceived
    /\ board.currentBuffer = <<>>
    /\ Len(rest) = 1
    /\ \E i \in 1..Len(calls) :
          /\ ~calls[i].run
          /\ calls[i].h = "DIGITAL_MESSAGE"
          /\ Len(calls[i].frame) = 3

\* C15: a byte arriving while the candidate buffer is empty is dropped when
\* it is zero, or when versionReceived is false and the byte is not
\* REPORT_VERSION: the buffer stays empty, no handler runs, no event is
\* raised and the board, its listeners and its writes are unchanged.
C15_LeadingByteFilter ==
    [][\A b \in ByteSet :
          ( /\ rest' = <<b>>
            /\ board.currentBuffer = <<>>
            /\ b = 0 \/ (~board.versionReceived /\ b # REPORT_VERSION) ) =>
              /\ board' = board
              /\ calls' = <<>>
              /\ emitted' = <<>>
              /\ UNCHANGED <<mod, once, lock, inflight, wire, timers, ops, hist>>]_vars

\* a frame opener has just been dropped before the version report
C15_Witness ==
    /\ hist.open
    /\ ~board.versionReceived
    /\ board.currentBuffer = <<>>
    /\ rest = <<START_SYSEX>>

\* C16: after each inbound byte has been processed the candidate buffer is
\* empty, or begins with START_SYSEX, or begins with a byte whose opcode is
\* REPORT_VERSION, ANALOG_MESSAGE or DIGITAL_MESSAGE.
C16_NoGarbageFirst ==
    \/ board.currentBuffer = <<>>
    \/ board.currentBuffer[1] = START_SYSEX
    \/ Response(board.currentBuffer[1]) \in
          {REPORT_VERSION, ANALOG_MESSAGE, DIGITAL_MESSAGE}

\* the number of times an event has been raised
RaisedTimes(es, name) == Len(SelectSeq(es, LAMBDA e : e.name = name))

\* C17: feeding [REPORT_VERSION, major, minor] to a parser whose buffer is
\* empty sets version to {major, minor}, sets versionReceived and raises
\* 'reportversion' exactly once, whether or not the handshake had completed.
C17_VersionReport ==
    [][(rest # <<>> /\ rest' = <<>>) =>
          /\ board'.version = [major |-> rest[2], minor |-> rest[3]]
          /\ board'.versionReceived
          /\ board'.currentBuffer = <<>>
          /\ RaisedTimes(emitted', "reportversion") = 1]_vars

\* the largest version has been reported to a ready board
C17_Witness ==
    /\ rest = <<>>
    /\ board.isReady
    /\ board.version = [major |-> MaxVersion, minor |-> 0]
    /\ Raised("reportversion")

\* the payload of a SysEx frame
Payload(frame) == SubSeq(frame, 3, Len(frame) - 1)

\* the payload of a capability reply cut at its 0x7F bytes: one sequence of
\* (mode, resolution) bytes per terminated pin
RECURSIVE PinSections(_, _, _)
PinSections(bytes, cur, acc) ==
    IF bytes = <<>> THEN acc
    ELSE IF Head(bytes) = 127
    THEN PinSections(Tail(bytes), <<>>, Append(acc, cur))
    ELSE PinSections(Tail(bytes), Append(cur, Head(bytes)), acc)

\* the capability reply is the frame being fed by this step
FeedsCapability ==
    /\ Len(rest) = 2
    /\ rest' = Tail(rest)

RECURSIVE AnalogCapable(_, _)
AnalogCapable(pins, i) ==
    IF i > Len(pins) THEN <<>>
    ELSE (IF pins[i].analogChannel # 127 THEN <<i - 1>> ELSE <<>>)
             \o AnalogCapable(pins, i + 1)

\* C19: after a capability reply immediately followed by an analog-mapping
\* reply every pin has an analogChannel that is the sentinel 0x7F or a
\* channel index, and analogPins lists exactly the pins whose channel is not
\* 0x7F.
C19_AnalogChannels ==
    rest = <<>> =>
        /\ \A i \in 1..Len(board.pins) : board.pins[i].analogChannel \in 0..127
        /\ board.analogPins = AnalogCapable(board.pins, 1)

\* the mode bytes of one pin section: the bytes at the even offsets
DeclaredModes(section) ==
    {section[k] : k \in {j \in 1..Len(section) : j % 2 = 1}}

\* C20: after a capability reply each pin's supportedModes holds exactly the
\* modes of board.MODES that the frame declared for that pin.
C20_SupportedModesExact ==
    [][FeedsCapability =>
          LET sections == PinSections(Payload(Head(rest)), <<>>, <<>>)
          IN  \A i \in 1..Len(board'.pins) :
                  i <= Len(sections) =>
                      board'.pins[i].supportedModes =
                          MODES \cap DeclaredModes(sections[i])]_vars

\* the resolution of the first entry of a capability reply that declares
\* the mode, Undefined when no entry does
RECURSIVE FirstResolution(_, _, _, _)
FirstResolution(buf, i, n, mode) ==
    IF i >= Len(buf) - 1 THEN Undefined
    ELSE IF At(buf, i) = 127 THEN FirstResolution(buf, i + 1, 0, mode)
    ELSE IF n = 1 THEN FirstResolution(buf, i + 1, 0, mode)
    ELSE IF At(buf, i) = mode THEN Resolution(ToInt(At(buf, i + 1)))
    ELSE FirstResolution(buf, i + 1, 1, mode)

\* C21: within one connection RESOLUTION.ADC and RESOLUTION.PWM, once set,
\* do not change, and the first capability reply decoded in a connection
\* sets them from its first entry declaring ANALOG respectively PWM.
C21_ResolutionPerConnection ==
    [][/\ (hist.open /\ ~Raised("disconnect")') =>
             /\ board.RESOLUTION.ADC # Undefined =>
                   board'.RESOLUTION.ADC = board.RESOLUTION.ADC
             /\ board.RESOLUTION.PWM # Undefined =>
                   board'.RESOLUTION.PWM = board.RESOLUTION.PWM
       /\ \A i \in 1..Len(calls') :
             ( /\ calls'[i].run
               /\ calls'[i].h = "CAPABILITY_RESPONSE"
               /\ ~hist.capability ) =>
                 /\ FirstResolution(calls'[i].frame, 2, 0, MODE_ANALOG) # Undefined =>
                       board'.RESOLUTION.ADC =
                           FirstResolution(calls'[i].frame, 2, 0, MODE_ANALOG)
                 /\ FirstResolution(calls'[i].frame, 2, 0, MODE_PWM) # Undefined =>
                       board'.RESOLUTION.PWM =
                           FirstResolution(calls'[i].frame, 2, 0, MODE_PWM)]_vars

\* bit (pin mod 8) of ports[pin div 8]
PortBit(ports, pin) == (ports[pin \div 8] \div (2 ^ (pin % 8))) % 2

\* C22: for every pin currently in INPUT or OUTPUT mode, bit (pin mod 8) of
\* ports[pin div 8] equals pins[pin].value, in every reachable state.
C22_PortsMirrorPins ==
    \A pin \in 0..(Len(board.pins) - 1) :
        board.pins[pin + 1].mode \in {MODE_INPUT, MODE_OUTPUT} =>
            PortBit(board.ports, pin) = board.pins[pin + 1].value

\* the event a pin holds after its value went from old to new
KeyEvent(old, new, before) ==
    IF old = 0 /\ new = 1 THEN KEY_RELEASED
    ELSE IF old = 1 /\ new = 0 THEN KEY_PRESSED
    ELSE before

\* C23: a digital message for port p changes only those of pins 8p..8p+7
\* that are in INPUT or PULLUP mode: the pin's value becomes its bit of the
\* port value, its event becomes released on 0 to 1 and pressed on 1 to 0,
\* its bit of ports[p] is updated and 'digital-read-<pin>' and
\* 'digital-read' are raised with the value; the other pins, the other bits
\* of ports and the rest of the board are unchanged.
C23_DigitalMessage ==
    [][\A msg \in DigitalMessages :
          rest' = msg =>
              LET port      == msg[1] - DIGITAL_MESSAGE
                  portValue == msg[2] + 128 * msg[3]
                  Hit(pin)  == /\ pin \div 8 = port
                               /\ board.pins[pin + 1].mode \in {MODE_INPUT, MODE_PULLUP}
                  Bit(pin)  == (portValue \div (2 ^ (pin % 8))) % 2
              IN  /\ Len(board'.pins) = Len(board.pins)
                  /\ \A pin \in 0..(Len(board.pins) - 1) :
                        IF Hit(pin)
                        THEN /\ board'.pins[pin + 1] =
                                   [board.pins[pin + 1] EXCEPT
                                      !.value = Bit(pin),
                                      !.event = KeyEvent(board.pins[pin + 1].value,
                                                         Bit(pin), @)]
                             /\ PortBit(board'.ports, pin) = Bit(pin)
                             /\ RaisedTimes(SelectSeq(emitted',
                                    LAMBDA e : e.arg = pin /\ e.val = Bit(pin)),
                                    "digital-read") = 1
                             /\ RaisedTimes(SelectSeq(emitted',
                                    LAMBDA e : e.arg = pin /\ e.val = Bit(pin)),
                                    "digital-read-any") = 1
                        ELSE /\ board'.pins[pin + 1] = board.pins[pin + 1]
                             /\ \A i \in 1..Len(emitted') : emitted'[i].arg # pin
                  /\ \A pin \in (8 * port)..(8 * port + 7) :
                        (pin >= Len(board.pins) \/ ~Hit(pin)) =>
                            PortBit(board'.ports, pin) = PortBit(board.ports, pin)
                  /\ \A p \in 0..15 : p # port => board'.ports[p] = board.ports[p]
                  /\ board' = [board EXCEPT !.pins = board'.pins,
                                            !.ports = board'.ports]
                  /\ UNCHANGED <<mod, once, lock, inflight, wire, timers, ops>>]_vars

\* a pin in INPUT mode has just been released while a pin in OUTPUT mode of
\* the same port kept a value that differs from its bit of the message
C23_Witness ==
    /\ rest = <<DIGITAL_MESSAGE, 1, 0>>
    /\ board.pins[1].mode = MODE_INPUT
    /\ board.pins[1].value = 1
    /\ board.pins[1].event = KEY_RELEASED
    /\ board.pins[2].mode = MODE_OUTPUT
    /\ board.pins[2].value = 1

\* C24: digitalWrite on a pin whose mode is already OUTPUT never sends a
\* PIN_MODE sequence: the call sets up no mode change, the operation submits
\* no mode write, and the only sequence it hands to the transport is the
\* value message of the pin's port.
C24_NoModeResend ==
    /\ [][\A o \in 1..Len(ops') :
            ( /\ o > Len(ops)
              /\ ops'[o].kind = "digitalWrite"
              /\ ops'[o].pin < Len(board.pins)
              /\ board.pins[ops'[o].pin + 1].mode = MODE_OUTPUT ) =>
                ~ops'[o].setmode]_vars
    /\ [](\A o \in 1..Len(ops) :
            (ops[o].kind = "digitalWrite" /\ ~ops[o].setmode) =>
                /\ ops[o].modeN = 0
                /\ ops[o].pc \notin {"mode_submit", "mode_wait", "mode_set"}
                /\ (ops[o].valueN # 0 /\ OnWire(ops[o].valueN)) =>
                      /\ Len(wire[WirePos(ops[o].valueN)].data) = 3
                      /\ wire[WirePos(ops[o].valueN)].data[1] =
                            DIGITAL_MESSAGE + (ops[o].pin \div 8))

\* digitalWrite called on a pin in OUTPUT mode has handed its value message
\* to the transport
C24_Witness ==
    \E o \in 1..Len(ops) :
        /\ ops[o].kind = "digitalWrite"
        /\ ~ops[o].setmode
        /\ board.pins[ops[o].pin + 1].mode = MODE_OUTPUT
        /\ OnWire(ops[o].valueN)

\* C25: digitalWrite, digitalRead, pwmWrite, analogRead, pinMode and
\* servoConfig addressed to a pin index outside the pin array (every call
\* made before the capability reply included) hand nothing to the transport
\* or to the lock, leave pins and ports unchanged, and never complete
\* successfully.
OutOfRange(b, op) ==
    IF op.kind = "analogRead"
    THEN \/ op.pin >= Len(b.analogPins)
         \/ b.analogPins[op.pin + 1] >= Len(b.pins)
    ELSE op.pin >= Len(b.pins)

C25_OutOfRangeRejected ==
    /\ [][\A o \in 1..Len(ops') :
            (o > Len(ops) /\ OutOfRange(board, ops'[o])) =>
                /\ wire' = wire
                /\ lock'.queue = lock.queue
                /\ board'.pins = board.pins
                /\ board'.ports = board.ports]_vars
    /\ [](\A o \in 1..Len(ops) :
            OutOfRange(board, ops[o]) => ops[o].pc \notin {"done", "resolved"})

\* C26: digitalRead on a pin already in INPUT mode and analogRead on a
\* channel whose pin is already in ANALOG mode resolve at the call with the
\* pin's cached value: one settled operation is added, nothing is handed to
\* the transport or to the lock, no listener is registered and no timer is
\* started.
CachedPin(b, op) ==
    CASE op.kind = "digitalRead" ->
            IF op.pin < Len(b.pins) /\ b.pins[op.pin + 1].mode = MODE_INPUT
            THEN op.pin + 1 ELSE 0
      [] op.kind = "analogRead" ->
            IF /\ op.pin < Len(b.analogPins)
               /\ b.analogPins[op.pin + 1] < Len(b.pins)
               /\ b.pins[b.analogPins[op.pin + 1] + 1].mode = MODE_ANALOG
            THEN b.analogPins[op.pin + 1] + 1 ELSE 0
      [] OTHER -> 0

C26_CachedRead ==
    [][\A o \in 1..Len(ops') :
          (o > Len(ops) /\ CachedPin(board, ops'[o]) # 0) =>
              /\ Len(ops') = Len(ops) + 1
              /\ ops'[o].pc = "resolved"
              /\ ops'[o].settled = 1
              /\ ops'[o].result = board.pins[CachedPin(board, ops'[o])].value
              /\ ~ops'[o].timer
              /\ wire' = wire
              /\ inflight' = inflight
              /\ lock' = lock
              /\ once' = once
              /\ timers' = timers
              /\ board' = board]_vars

\* a read that was answered from the cache called no pinMode: no pinMode
\* operation stands next to it
FromCache(o) ==
    /\ ops[o].pc = "resolved"
    /\ CASE ops[o].kind = "digitalRead" ->
               o = Len(ops) \/ ops[o + 1].kind # "pinMode"
         [] ops[o].kind = "analogRead" ->
               o = 1 \/ ops[o - 1].kind # "pinModeReport"
         [] OTHER -> FALSE

C26_Witness ==
    \E o \in 1..Len(ops) :
        /\ FromCache(o)
        /\ ops[o].kind = "digitalRead"
        /\ ops[o].result = 1
        /\ \A l \in 1..Len(once) : once[l].op # o

C26_WitnessAnalog ==
    \E o \in 1..Len(ops) :
        /\ FromCache(o)
        /\ ops[o].kind = "analogRead"
        /\ ops[o].result = 5

\* C27: a write submitted while the lock is held and its queue holds
\* maxPending tasks fails at once and changes neither the queue nor what the
\* transport was handed; any other write is accepted (handed to the
\* transport or queued); a queued write whose timeout fires fails, and the
\* bytes of a write that failed this way are never handed to the transport;
\* the transport receives the accepted writes in the order of submission.
QueueFull == lock.busy /\ Len(lock.queue) >= maxPending

Queued(q, n) == \E i \in 1..Len(q) : q[i].n = n /\ ~q[i].dead

Sent(wr, n) == \E i \in 1..Len(wr) : wr[i].n = n

C27_LockRejects ==
    /\ [][/\ \A o \in 1..Len(ops') :
               (o > Len(ops) /\ QueueFull) =>
                   /\ ops'[o].pc = "failed"
                   /\ wire' = wire
                   /\ inflight' = inflight
                   /\ lock'.queue = lock.queue
          /\ \A o \in 1..Len(ops') :
               (o > Len(ops) /\ ~QueueFull) =>
                   /\ ops'[o].pc = "mode_wait"
                   /\ Sent(wire', ops'[o].modeN) \/ Queued(lock'.queue, ops'[o].modeN)
          /\ \A o \in 1..Len(ops) :
               (ops[o].pc = "failed" /\ ~Sent(wire, ops[o].modeN)) =>
                   ~Sent(wire', ops[o].modeN)]_vars
    /\ [](/\ \A i \in 1..Len(lock.queue) :
               lock.queue[i].dead => ops[lock.queue[i].owner].pc = "failed"
          /\ \A o \in 1..Len(ops) :
               ops[o].pc = "failed" =>
                   /\ ~Sent(wire, ops[o].modeN)
                   /\ ~Queued(lock.queue, ops[o].modeN)
          /\ \A i, j \in 1..Len(wire) : i < j => wire[i].n < wire[j].n)

\* a write was rejected by the full queue: the ten writes submitted before
\* it are all still waiting
C27_Witness ==
    \E o \in 1..Len(ops) :
        /\ ops[o].pc = "failed"
        /\ Len(lock.queue) = maxPending
        /\ \A i \in 1..Len(lock.queue) :
              ~lock.queue[i].dead /\ lock.queue[i].owner < o

\* a write submitted after two failed ones has been transmitted
C27_WitnessLater ==
    \E o1, o2, o3 \in 1..Len(ops) :
        /\ o1 < o2 /\ o2 < o3
        /\ ops[o1].pc = "failed"
        /\ ops[o2].pc = "failed"
        /\ Len(wire) = o3 - 2
        /\ OnWire(ops[o3].modeN)
        /\ ops[o3].pc = "done"

\* C28 (safety half): a read-style operation (digitalRead, analogRead,
\* i2cRequestRead) that is waiting for its event completes as a failure only
\* by its deadline: the step that fails it is the firing of its own timer.
C28_FailsOnlyAtDeadline ==
    [][\A o \in 1..Len(ops) :
          ( /\ ops[o].kind \in ReadKinds
            /\ ops[o].pc \notin {"rejected", "failed"}
            /\ ops'[o].pc \in {"rejected", "failed"} ) =>
              ops[o].timer /\ ~ops'[o].timer]_vars

\* C29: after every step in which writeToTransport was called isClean is
\* not true (it is false, or has never been assigned), and a call of reset()
\* submits the one-byte sequence SYSTEM_RESET through writeToTransport exactly
\* when isClean was not true at the call; with isClean true it writes
\* nothing.
ResetSubmitted(n) ==
    \/ \E i \in 1..Len(wire') :
          wire'[i].n = n /\ wire'[i].data = <<SYSTEM_RESET>>
    \/ \E i \in 1..Len(lock'.queue) :
          lock'.queue[i].n = n /\ lock'.queue[i].data = <<SYSTEM_RESET>>

C29_WitnessUndefined ==
    \E o \in 1..Len(ops) :
        /\ ops[o].kind = "reset"
        /\ ops[o].valueN # 0
        /\ board.isClean = "undefined"

\* C30: when the handler of a transport 'error' event has run, 'error' has
\* been raised and the handshake flags are reset: versionReceived is false
\* and isReady is false.
C30_ErrorResets ==
    Raised("error") =>
        /\ board.versionReceived = FALSE
        /\ board.isReady = FALSE

\* C31: sysexResponse(commandByte, handler) fails at the call when a
\* handler, built-in or registered earlier, exists for commandByte, and
\* leaves the registry as it was; otherwise it registers the handler.  A
\* frame F0 commandByte payload F7 then invokes the registered handler once,
\* with the payload: the frame without its first two bytes and without its
\* end marker.  Frames of unregistered bytes invoke no user handler.
C31_SysexRegistration ==
    [][/\ \A o \in 1..Len(ops') :
            (o > Len(ops) /\ ops'[o].kind = "sysexResponse") =>
                IF ops'[o].pin \in SysexCommands \cup mod.sysex
                THEN ops'[o].pc = "failed" /\ mod' = mod
                ELSE /\ ops'[o].pc = "done"
                     /\ mod'.sysex = mod.sysex \cup {ops'[o].pin}
       /\ (rest' # rest \/ calls' # <<>>) =>
            /\ mod' = mod
            /\ LET user == SelectSeq(calls', LAMBDA c : c.h = "USER")
               IN  IF rest'[2] \in mod.sysex
                   THEN /\ calls' = user
                        /\ Len(user) = 1
                        /\ user[1].run
                        /\ user[1].arg = Payload(rest')
                   ELSE user = <<>>]_vars

\* a handler registered for byte 80 has been invoked with a two-byte payload
\* after a second registration for that byte had failed
C31_Witness ==
    /\ \E o1, o2 \in 1..Len(ops) :
          /\ o1 < o2
          /\ ops[o1].kind = "sysexResponse" /\ ops[o1].pin = 80 /\ ops[o1].pc = "done"
          /\ ops[o2].kind = "sysexResponse" /\ ops[o2].pin = 80 /\ ops[o2].pc = "failed"
    /\ Len(calls) = 1
    /\ calls[1].h = "USER"
    /\ calls[1].arg = <<1, 2>>

\* C32: for every v in 0..16383, encode([v]) is two bytes, each at most
\* 0x7F, the least significant seven bits first, and decode of those two
\* bytes is [v].
C32_EncodeDecode ==
    \A i \in 1..Len(calls) :
        LET v == calls[1].frame[1]
        IN  (calls[1].h = "encode" /\ v < 2 ^ 14) =>
              /\ Len(calls[1].arg) = 2
              /\ \A k \in 1..2 : calls[1].arg[k] \in 0..127
              /\ calls[1].arg[1] = v % 128
              /\ calls[1].arg[2] = v \div 128
              /\ i = 2 => (calls[2].frame = calls[1].arg /\ calls[2].arg = <<v>>)

C32_Witness ==
    /\ Len(calls) = 2
    /\ calls[1].h = "encode"
    /\ calls[1].frame = <<300>>
    /\ calls[1].arg = <<44, 2>>
    /\ calls[2].h = "decode"
    /\ calls[2].arg = <<300>>

\* C33: the step that decodes an inbound chunk and runs a message handler
\* hands nothing to the transport: no call of transport.write is made while
\* the chunk is being decoded.
C33_NoWriteWhileDecoding ==
    [][(\E i \in 1..Len(calls') : calls'[i].run) =>
          /\ wire' = wire
          /\ inflight' = inflight]_vars

\* C34: when every digitalWrite call made on pin 0 (mode OUTPUT) has
\* completed successfully and no write is outstanding, pins[0].value, bit 0
\* of ports[0] and bit 0 of the last port message handed to the transport
\* all equal the value requested by the last call.
PortMessages == SelectSeq(wire, LAMBDA m : m.data[1] = DIGITAL_MESSAGE)

C34_LastWriteWins ==
    ( /\ Len(ops) > 1
      /\ \A o \in 1..Len(ops) : ops[o].pc = "done"
      /\ inflight = <<>>
      /\ lock.queue = <<>> ) =>
        LET last == ops[Len(ops)].value
        IN  /\ board.pins[1].value = last
            /\ PortBit(board.ports, 0) = last
            /\ PortMessages # <<>> =>
                  PortMessages[Len(PortMessages)].data[2] % 2 = last

\* C35: 'ready' is raised at most once between a transport open and the
\* next disconnect: no step raises it twice, and no step raises it on a
\* board that is ready already (isReady is reset by 'disconnect' only).
C35_ReadyOnce ==
    [][/\ RaisedTimes(emitted', "ready") <= 1
       /\ RaisedTimes(emitted', "ready") = 1 => ~board.isReady]_vars

\* C36: isClean is true only if no write has been submitted since init()
\* submitted its own.  The boards of ResetBoards are taken at or after their
\* last init() and wire starts empty there, so every sequence in wire or in
\* the queue of the lock was submitted after init().
C36_CleanMeansUntouched ==
    board.isClean = "true" => (wire = <<>> /\ lock.queue = <<>>)

\* C37: desync lasts at most one frame.  Once the version report has been
\* received, whatever the buffer holds, feeding one complete well-formed
\* frame leaves the buffer empty; and a well-formed frame fed on an empty
\* buffer is dispatched exactly once, on exactly its own bytes.
C37_DesyncOneFrame ==
    rest \in WellFormed =>
        /\ board.currentBuffer = <<>>
        /\ ref.board.currentBuffer = <<>> =>
              /\ Len(calls) = 1
              /\ calls[1].run
              /\ calls[1].frame = rest

\* a well-formed frame has been fed on a buffer that held a partial message,
\* a handler ran on the mixed bytes, and the buffer is empty afterwards
C37_Witness ==
    /\ rest \in WellFormed
    /\ ref.board.currentBuffer # <<>>
    /\ calls # <<>>
    /\ calls[1].frame # rest
    /\ board.currentBuffer = <<>>

\* C38: a short message is never dispatched with a payload byte above 0x7F.
\* Every analog or digital message handed to its handler has both data bytes
\* in 0..127, so that the value it yields lies in 0..16383; in particular
\* every 'analog-read' event carries a value in that range.
C38_PayloadSevenBit ==
    /\ \A i \in 1..Len(calls) :
          (calls[i].run /\ calls[i].h \in {"ANALOG_MESSAGE", "DIGITAL_MESSAGE"}) =>
              /\ calls[i].frame[2] <= 127
              /\ calls[i].frame[3] <= 127
              /\ BitOr(calls[i].frame[2], calls[i].frame[3] * 128) \in 0..16383
    /\ \A i \in 1..Len(emitted) :
          emitted[i].name = "analog-read" => emitted[i].val \in 0..16383

\* C39: a write settles as successful only if its bytes were handed to a
\* connected transport.  Every reset() whose promise is fulfilled after a
\* write (its pc is "done" and valueN is the number of its writeToTransport
\* call) had its bytes handed to the bridge while BleComm was connected.
C39_SuccessMeansSent ==
    \A o \in 1..Len(ops) :
        (ops[o].kind = "reset" /\ ops[o].pc = "done" /\ ops[o].valueN > 0) =>
            \E i \in 1..Len(mod.comm.bridge) :
                /\ mod.comm.bridge[i].n = ops[o].valueN
                /\ mod.comm.bridge[i].connected

\* C40: on the Communicator 'disconnect' is emitted only for a connection for
\* which 'open' was emitted and at most once per 'open', and no 'data' is
\* emitted after 'disconnect' until the next 'open'.  hist.open tells that
\* 'open' has been emitted and 'disconnect' has not been since.
C40_DisconnectAfterOpen ==
    [][/\ RaisedTimes(emitted', "transport.disconnect") <= 1
       /\ RaisedTimes(emitted', "transport.disconnect") = 1 => hist.open
       /\ RaisedTimes(emitted', "transport.data") > 0 => hist.open]_vars

====
